---- MODULE Spec2Model ----
(***************************************************************************)
(* FraySpace backend: the facilitation decision engine.                    *)
(*                                                                         *)
(* The model covers the intervention policy (services/interventionPolicy), *)
(* the orchestrator (services/llmOrchestrator.js), the LLM routes          *)
(* (routes/llm.js), the message routes (routes/messages.js,                *)
(* routes/threads.js) and the Message pre-save hook.                       *)
(*                                                                         *)
(* Text is a sequence of lower-cased words; a regular expression of the    *)
(* source is a set of alternatives, each a sequence of word classes that   *)
(* must match consecutive words (the \s+ between the words of a pattern).  *)
(* Dates are integers of a logical millisecond clock; 0 stands for null.   *)
(***************************************************************************)
EXTENDS Integers, Sequences, FiniteSets, TLC

VARIABLES
    threads,    \* Thread collection: thread id -> Thread document
    messages,   \* Message collection, in insertion order
    claims,     \* Claim collection: the status of each stored claim record
    now,        \* the clock read by new Date() / Date.now()
    outcome,    \* what the last handler gave its caller
    call,       \* the last direct call of shouldIntervene: inputs and Decision
    pending,    \* orchestrator calls awaiting their pipeline: thread id and Decision
    backends    \* whether the model backend and the search backends answer, and how

vars == <<threads, messages, claims, now, outcome, call, pending, backends>>

----------------------------------------------------------------------------
(* Bounds of the model. *)

MaxMsgs == 3
MaxTime == 2
MaxTextLen == 3
MinFrequency == 2

----------------------------------------------------------------------------
(* Values. *)

ThreadIds == {1, 2}          \* 1 is a stored thread, 2 is an id with no document
Levels == {"minimal", "balanced", "active"}
Frequencies == {MinFrequency, MinFrequency + 1}
VerifyEmoji == "receipt"     \* the receipt emoji of interventionPolicy line 86
Emojis == {VerifyEmoji, "thumbsup"}
Falsy == {"undefined", ""}
RequestTypes == {"undefined", "", "summary", "fact_check", "observation", "resolve"}

\* Words of the exhaustively enumerated texts, and further words that only
\* the hand-picked texts use.
Vocab == {"causes", "cancer", "always", "studies", "show", "90%", "of", "people", "illegal"}
ExampleText == <<"studies", "show", "90%", "of", "people", "who", "skip", "breakfast", "gain", "weight">>
ExtraTexts == { ExampleText,
                <<"studies", "prove", "that", "it", "works">>,
                <<"studies", "show", "that", "it", "works">>,
                <<"a", "90%", "return", "is", "certain">>,
                <<"it", "is", "against", "the", "law">>,
                <<"it", "always", "leads", "to", "cancer">>,
                <<"hello", "there">> }
AllTexts == UNION { [1..n -> Vocab] : n \in 0..MaxTextLen } \cup ExtraTexts
SmallTexts == { <<"hello", "there">>, <<"causes", "cancer">>, ExampleText }

----------------------------------------------------------------------------
(* detectHighImpactClaim: the seven patterns, in the order of the source. *)

HighImpactPatterns ==
    << { << {"cures", "cure", "treats", "treat", "prevents", "prevent",
             "causes", "cause", "heals", "heal"},
            {"cancer", "diabetes", "disease", "illness"} >> },
       { << {"studies", "study"}, {"show"} >>,
         << {"research"}, {"shows"} >>,
         << {"proven"}, {"to"} >> },
       { << {"illegal", "unlawful", "felony", "misdemeanor"} >>,
         << {"against"}, {"the"}, {"law"} >> },
       { << {"$100", "90%"}, {"return", "profit", "guaranteed"} >> },
       { << {"90%"}, {"of"}, {"people", "americans", "users", "patients"} >> },
       { << {"studies", "study"}, {"show", "prove", "demonstrate"}, {"that"} >> },
       { << {"always", "never", "every", "all", "none"}, {"causes", "cause"} >>,
         << {"always", "never", "every", "all", "none"}, {"results", "result"}, {"in"} >>,
         << {"always", "never", "every", "all", "none"}, {"leads", "lead"}, {"to"} >> } >>

\* alternative alt matches the words of text that start at position i
MatchesAt(text, i, alt) ==
    /\ i + Len(alt) - 1 <= Len(text)
    /\ \A k \in 1..Len(alt) : text[i + k - 1] \in alt[k]

\* the positions at which pattern p (a set of alternatives) matches
MatchStarts(text, p) ==
    { i \in 1..Len(text) : \E alt \in p : MatchesAt(text, i, alt) }

Minimum(S) == CHOOSE x \in S : \A y \in S : x <= y

\* String.prototype.match without the g flag: the leftmost match, match[0]
RegexMatch(text, p) ==
    LET i   == Minimum(MatchStarts(text, p))
        alt == CHOOSE a \in p : MatchesAt(text, i, a)
    IN  SubSeq(text, i, i + Len(alt) - 1)

\* the first pattern of the list that matches, 0 when none does
FirstPattern(text) ==
    LET hits == { k \in 1..Len(HighImpactPatterns) :
                    MatchStarts(text, HighImpactPatterns[k]) # {} }
    IN  IF hits = {} THEN 0 ELSE Minimum(hits)

NoClaim == [found |-> FALSE, claimText |-> <<>>, threw |-> FALSE]

detectHighImpactClaimWholeText(msg) ==
    IF ~msg.hasContent THEN [found |-> FALSE, claimText |-> <<>>, threw |-> TRUE]
    ELSE IF FirstPattern(msg.content) = 0 THEN NoClaim
    ELSE [found |-> TRUE, claimText |-> msg.content, threw |-> FALSE]

\* messageContent.match on a message without content is a TypeError
detectHighImpactClaim(msg) ==
    IF ~msg.hasContent THEN [found |-> FALSE, claimText |-> <<>>, threw |-> TRUE]
    ELSE IF FirstPattern(msg.content) = 0 THEN NoClaim
    ELSE [found |-> TRUE,
          claimText |-> RegexMatch(msg.content, HighImpactPatterns[FirstPattern(msg.content)]),
          threw |-> FALSE]

\* a detector that finds a conflict in every message
detectContradictionAlways(tid, msg) == TRUE

\* the placeholder: never a contradiction
detectContradiction(tid, msg) == FALSE

----------------------------------------------------------------------------
(* getMessagesSinceLastSummary *)

\* Message.countDocuments({threadId, messageType: 'user', createdAt: {$gt: t}})
UserMessagesAfter(tid, msgs, t) ==
    Cardinality({ i \in DOMAIN msgs :
                    /\ msgs[i].threadId = tid
                    /\ msgs[i].messageType = "user"
                    /\ msgs[i].createdAt > t })

LiveUserMessagesAfter(tid, msgs, t) ==
    Cardinality({ i \in DOMAIN msgs :
                    /\ msgs[i].threadId = tid
                    /\ msgs[i].messageType = "user"
                    /\ msgs[i].createdAt > t
                    /\ ~msgs[i].isDeleted })

getMessagesSinceLastSummaryNonDeleted(tid, thread, msgs) ==
    IF thread.lastSummaryAt = 0 THEN thread.messageCount
    ELSE LiveUserMessagesAfter(tid, msgs, thread.lastSummaryAt)

getMessagesSinceLastSummary(tid, thread, msgs) ==
    IF thread.lastSummaryAt = 0 THEN thread.messageCount
    ELSE UserMessagesAfter(tid, msgs, thread.lastSummaryAt)

----------------------------------------------------------------------------
(* Decisions and event contexts. *)

Act(reason, actionType, priority) ==
    [shouldIntervene |-> TRUE, reason |-> reason, actionType |-> actionType,
     priority |-> priority, hasClaimText |-> FALSE, claimText |-> <<>>,
     threw |-> FALSE]

ActOnClaim(reason, actionType, priority, claimText) ==
    [shouldIntervene |-> TRUE, reason |-> reason, actionType |-> actionType,
     priority |-> priority, hasClaimText |-> TRUE, claimText |-> claimText,
     threw |-> FALSE]

NoAct(reason) ==
    [shouldIntervene |-> FALSE, reason |-> reason, actionType |-> "undefined",
     priority |-> "undefined", hasClaimText |-> FALSE, claimText |-> <<>>,
     threw |-> FALSE]

\* an exception leaving the function instead of a Decision
Thrown ==
    [shouldIntervene |-> FALSE, reason |-> "exception", actionType |-> "undefined",
     priority |-> "undefined", hasClaimText |-> FALSE, claimText |-> <<>>,
     threw |-> TRUE]

NoMessage == [present |-> FALSE, hasContent |-> FALSE, content |-> <<>>]
MsgNoContent == [present |-> TRUE, hasContent |-> FALSE, content |-> <<>>]
Msg(text) == [present |-> TRUE, hasContent |-> TRUE, content |-> text]
NoReaction == [present |-> FALSE, emoji |-> ""]
Reaction(e) == [present |-> TRUE, emoji |-> e]

Ctx(er, rt, m, r) ==
    [explicitRequest |-> er, requestType |-> rt, newMessage |-> m, reaction |-> r]

\* the storage calls of one evaluation: Thread.findById, Message.countDocuments
StorageOk == [findFails |-> FALSE, countFails |-> FALSE]
StorageEnvs == { StorageOk,
                 [findFails |-> TRUE, countFails |-> FALSE],
                 [findFails |-> FALSE, countFails |-> TRUE] }

----------------------------------------------------------------------------
(* shouldIntervene, rule by rule. *)

\* context.requestType || 'summary'
RequestedAction(ctx) ==
    IF ctx.requestType \in Falsy THEN "summary" ELSE ctx.requestType

ExplicitRequestDecisionNormalPriority(ctx) ==
    Act("Explicit user request", RequestedAction(ctx), "normal")

ExplicitRequestDecision(ctx) ==
    Act("Explicit user request", RequestedAction(ctx), "high")

ReactionRuleHighPriority(ctx) ==
    IF ctx.reaction.present /\ ctx.reaction.emoji = VerifyEmoji
    THEN Act("User requested source verification", "fact_check", "high")
    ELSE NoAct("No intervention triggers met")

\* lines 85-95: the verify reaction, else no trigger
ReactionRule(ctx) ==
    IF ctx.reaction.present /\ ctx.reaction.emoji = VerifyEmoji
    THEN Act("User requested source verification", "fact_check", "normal")
    ELSE NoAct("No intervention triggers met")

\* lines 70-83
ContradictionRule(tid, thread, ctx) ==
    IF /\ thread.interventionLevel # "minimal"
       /\ ctx.newMessage.present
       /\ detectContradiction(tid, ctx.newMessage)
    THEN Act("Potential contradiction detected", "observation", "normal")
    ELSE ReactionRule(ctx)

\* lines 55-68
ClaimRule(tid, thread, ctx) ==
    IF thread.interventionLevel = "active" /\ ctx.newMessage.present
    THEN LET c == detectHighImpactClaim(ctx.newMessage)
         IN  IF c.threw THEN Thrown
             ELSE IF c.found
                  THEN ActOnClaim("High-impact claim detected", "fact_check",
                                  "high", c.claimText)
                  ELSE ContradictionRule(tid, thread, ctx)
    ELSE ContradictionRule(tid, thread, ctx)

ThresholdReachedStrict(count, frequency) == count > frequency

\* line 45
ThresholdReached(count, frequency) == count >= frequency

\* lines 41-53
ThresholdRule(tid, thread, ctx, env, msgs) ==
    IF thread.settings.autoSummaryEnabled
    THEN IF thread.lastSummaryAt # 0 /\ env.countFails THEN Thrown
         ELSE IF ThresholdReached(getMessagesSinceLastSummary(tid, thread, msgs),
                                  thread.settings.summaryFrequency)
              THEN Act("Message threshold reached", "summary", "normal")
              ELSE ClaimRule(tid, thread, ctx)
    ELSE ClaimRule(tid, thread, ctx)

MinimalRuleFallsThrough(ctx) ==
    IF ctx.explicitRequest THEN ExplicitRequestDecision(ctx)
    ELSE ReactionRule(ctx)

\* lines 18-29
MinimalRule(ctx) ==
    IF ctx.explicitRequest THEN ExplicitRequestDecision(ctx)
    ELSE NoAct("Minimal intervention mode")

\* lines 12-95: the body of the try block
shouldInterveneTry(tid, ctx, env, thrs, msgs) ==
    IF env.findFails THEN Thrown
    ELSE IF tid \notin DOMAIN thrs THEN NoAct("Thread not found")
    ELSE IF thrs[tid].interventionLevel = "minimal" THEN MinimalRule(ctx)
    ELSE IF ctx.explicitRequest THEN ExplicitRequestDecision(ctx)
    ELSE ThresholdRule(tid, thrs[tid], ctx, env, msgs)

shouldInterveneNoCatch(tid, ctx, env, thrs, msgs) ==
    shouldInterveneTry(tid, ctx, env, thrs, msgs)

\* lines 10-100: try { ... } catch { no-act }
shouldIntervene(tid, ctx, env, thrs, msgs) ==
    LET d == shouldInterveneTry(tid, ctx, env, thrs, msgs)
    IN  IF d.threw THEN NoAct("Error evaluating policy") ELSE d

----------------------------------------------------------------------------
(* Documents. *)

\* models/Thread.js: the fields the facilitation code reads and writes
NewThread(level, autoSummary, frequency) ==
    [interventionLevel |-> level,
     settings |-> [autoSummaryEnabled |-> autoSummary,
                   summaryFrequency |-> frequency,
                   autoFactCheckEnabled |-> TRUE],
     conversationState |-> [activeTopic |-> "", keyPoints |-> ""],
     lastSummaryAt |-> 0,
     messageCount |-> 0,
     isClosed |-> FALSE]

\* models/Message.js
NewMessage(tid, type, createdAt, triggerType) ==
    [threadId |-> tid, messageType |-> type, createdAt |-> createdAt,
     isDeleted |-> FALSE, isEdited |-> FALSE, reactions |-> {},
     triggerType |-> triggerType]

NoOutcome ==
    [op |-> "none", result |-> "none", status |-> 0, intervened |-> FALSE,
     hasError |-> FALSE, reason |-> "", actionType |-> "undefined", failed |-> FALSE,
     emitted |-> "none"]

\* the model backend (Ollama) and the search backends as the services find them
ModelStates == {"up", "unreachable", "timeout", "invalid"}
SearchStates == {"up", "down"}
BackendsUp == [model |-> "up", search |-> "up"]

NoCall ==
    [made |-> FALSE, tid |-> 1, ctx |-> Ctx(FALSE, "undefined", NoMessage, NoReaction),
     env |-> StorageOk, decision |-> NoAct("none")]

----------------------------------------------------------------------------
(* SpecPolicy: shouldIntervene applied to bounded inputs. *)

NonDecreasing(f) == \A i, j \in DOMAIN f : i <= j => f[i] <= f[j]

\* user messages created at non-decreasing times
PolicyMessages ==
    { [i \in DOMAIN f |-> NewMessage(1, "user", f[i], "none")] :
        f \in { g \in UNION { [1..n -> 1..MaxTime] : n \in 0..MaxMsgs } :
                  NonDecreasing(g) } }

PolicyThreads(msgs) ==
    { [NewThread(l, a, f) EXCEPT !.messageCount = Len(msgs), !.lastSummaryAt = t] :
        l \in Levels, a \in BOOLEAN, f \in Frequencies, t \in 0..MaxTime }

ExplicitContexts ==
    { Ctx(TRUE, rt, m, r) :
        rt \in RequestTypes,
        m \in {NoMessage, Msg(<<"causes", "cancer">>)},
        r \in {NoReaction, Reaction(VerifyEmoji)} }

EventContexts ==
    { Ctx(FALSE, "undefined", m, r) :
        m \in {NoMessage, MsgNoContent} \cup { Msg(t) : t \in SmallTexts },
        r \in {NoReaction} \cup { Reaction(e) : e \in Emojis } }

TextContexts ==
    { Ctx(FALSE, "undefined", Msg(t), NoReaction) : t \in AllTexts }

InitPolicy ==
    /\ now = MaxTime
    /\ claims = <<>>
    /\ outcome = NoOutcome
    /\ pending = <<>>
    /\ backends = BackendsUp
    /\ \E ms \in PolicyMessages :
         /\ messages = ms
         /\ \E th \in PolicyThreads(ms) :
              /\ threads = (1 :> th)
              /\ \/ \E tid \in ThreadIds, c \in ExplicitContexts \cup EventContexts,
                       e \in StorageEnvs :
                       call = [NoCall EXCEPT !.tid = tid, !.ctx = c, !.env = e]
                 \/ /\ \A i \in DOMAIN ms : ms[i].createdAt = 1
                    /\ Len(ms) \in {0, MinFrequency}
                    /\ th.lastSummaryAt = 0
                    /\ th.settings.summaryFrequency = MinFrequency
                    /\ \E c \in TextContexts :
                         call = [NoCall EXCEPT !.ctx = c]

DecideCall ==
    /\ ~call.made
    /\ call' = [call EXCEPT !.made = TRUE,
                            !.decision = shouldIntervene(call.tid, call.ctx, call.env,
                                                         threads, messages)]
    /\ UNCHANGED <<threads, messages, claims, now, outcome, pending, backends>>

NextPolicy == DecideCall

SpecPolicy == InitPolicy /\ [][NextPolicy]_vars

----------------------------------------------------------------------------
(* The pipelines as the orchestrator and the routes see them. *)

Topics == {"T1"}

\* What the collaborators do during one summarization: the step that fails
\* (generate: generateSummary's own thread lookup, message query or model
\* call), the shape of the JSON the model returned, and its topic statement.
\* A field that the failing step leaves unread has one value only.
SummaryShapes == {"valid", "noKeyPoints", "noOpenQuestions"}
SummarySteps == {"none", "messageSave", "threadFind", "threadSave"}
SummaryEnvs ==
    { [failAt |-> "generate", shape |-> "valid", topic |-> "T1"],
      [failAt |-> "threadFind", shape |-> "valid", topic |-> "T1"],
      [failAt |-> "none", shape |-> "noKeyPoints", topic |-> "T1"] }
    \cup { [failAt |-> f, shape |-> sh, topic |-> tp] :
             f \in SummarySteps \ {"threadFind"},
             sh \in SummaryShapes \ {"noKeyPoints"}, tp \in Topics }
DefaultSummaryEnv == [failAt |-> "none", shape |-> "valid", topic |-> "T1"]

\* One fact-check: the step that fails and the status field of the model's JSON.
VerdictStatuses == {"verified", "undefined"}
FactCheckEnvs ==
    { [failAt |-> "model", status |-> "verified"],
      [failAt |-> "threadFind", status |-> "verified"] }
    \cup { [failAt |-> f, status |-> st] :
             f \in {"none", "messageSave", "claimSave"},
             st \in VerdictStatuses }
DefaultFactCheckEnv == [failAt |-> "none", status |-> "verified"]

\* summaryService.generateSummary throws
generateSummaryThrows(tid, env, thrs) ==
    tid \notin DOMAIN thrs \/ env.failAt = "generate"

\* formatSummaryForDisplay reads keyPointsSoFar.map and the length of the
\* four other lists
formatSummaryForDisplayThrows(env) == env.shape # "valid"

\* formatFactCheckForDisplay: result.status.toUpperCase()
formatFactCheckForDisplayThrows(env) == env.status = "undefined"

\* decision.priority === 'high' ? 'explicit_request' : 'automatic'
TriggerType(decision) ==
    IF decision.priority = "high" THEN "explicit_request" ELSE "automatic"

Failed(thrs, msgs) ==
    [threw |-> TRUE, threads |-> thrs, messages |-> msgs, actionType |-> "undefined"]

Done(thrs, msgs, actionType) ==
    [threw |-> FALSE, threads |-> thrs, messages |-> msgs, actionType |-> actionType]

\* thread.conversationState = {...}; thread.lastSummaryAt = new Date()
ApplySummary(thrs, tid, env, t) ==
    [thrs EXCEPT ![tid].conversationState =
                     [activeTopic |-> env.topic, keyPoints |-> env.topic],
                 ![tid].lastSummaryAt = t]

\* a summarization that stamps the thread before it starts and leaves the
\* stamp when it fails
generateAndPostSummaryStampsFirst(tid, decision, env, thrs, msgs, t) ==
    LET stamped == IF tid \in DOMAIN thrs
                   THEN [thrs EXCEPT ![tid].lastSummaryAt = t] ELSE thrs
    IN  IF \/ generateSummaryThrows(tid, env, thrs)
           \/ formatSummaryForDisplayThrows(env)
           \/ env.failAt = "messageSave"
        THEN Failed(stamped, msgs)
        ELSE LET saved == Append(msgs, NewMessage(tid, "llm_summary", t,
                                                  TriggerType(decision)))
             IN  IF env.failAt \in {"threadFind", "threadSave"}
                 THEN Failed(stamped, saved)
                 ELSE Done(ApplySummary(thrs, tid, env, t), saved, "summary")

\* llmOrchestrator.generateAndPostSummary: the message is saved first, the
\* thread is looked up, updated and saved after it
generateAndPostSummary(tid, decision, env, thrs, msgs, t) ==
    IF \/ generateSummaryThrows(tid, env, thrs)
       \/ formatSummaryForDisplayThrows(env)
       \/ env.failAt = "messageSave"
    THEN Failed(thrs, msgs)
    ELSE LET saved == Append(msgs, NewMessage(tid, "llm_summary", t, TriggerType(decision)))
         IN  IF env.failAt \in {"threadFind", "threadSave"}
             THEN Failed(thrs, saved)
             ELSE Done(ApplySummary(thrs, tid, env, t), saved, "summary")

\* llmOrchestrator.performFactCheck
performFactCheck(tid, decision, env, thrs, msgs, t) ==
    IF \/ env.failAt = "model"
       \/ formatFactCheckForDisplayThrows(env)
       \/ env.failAt = "messageSave"
    THEN Failed(thrs, msgs)
    ELSE Done(thrs,
              Append(msgs, NewMessage(tid, "llm_fact_check", t, TriggerType(decision))),
              "fact_check")

\* llmOrchestrator.postObservation
postObservation(tid, decision, env, thrs, msgs, t) ==
    IF env.failAt = "messageSave"
    THEN Failed(thrs, msgs)
    ELSE Done(thrs, Append(msgs, NewMessage(tid, "llm_intervention", t, "automatic")),
              "observation")

----------------------------------------------------------------------------
(* What a handler gives its caller. *)

Report(op, intervened, reason, actionType) ==
    [op |-> op, result |-> "returned", status |-> 0, intervened |-> intervened,
     hasError |-> FALSE, reason |-> reason, actionType |-> actionType, failed |-> FALSE,
     emitted |-> "none"]

\* { intervened: false, error: error.message }
ErrorReport(op) ==
    [op |-> op, result |-> "returned", status |-> 0, intervened |-> FALSE,
     hasError |-> TRUE, reason |-> "", actionType |-> "undefined", failed |-> FALSE,
     emitted |-> "none"]

\* the handler's promise rejects
Rejection(op) ==
    [op |-> op, result |-> "threw", status |-> 0, intervened |-> FALSE,
     hasError |-> FALSE, reason |-> "", actionType |-> "undefined", failed |-> FALSE,
     emitted |-> "none"]

Http(op, status) ==
    [op |-> op, result |-> "http", status |-> status, intervened |-> FALSE,
     hasError |-> status >= 400, reason |-> "", actionType |-> "undefined",
     failed |-> status >= 500, emitted |-> "none"]

\* io.to(`thread_${id}`).emit(event, ...) before the answer is sent
Emitting(out, event) == [out EXCEPT !.emitted = event]

\* where a pipeline's effects and the handler's answer go; failed records
\* that the pipeline (or the handler's own check) threw
Effect(r, out) ==
    [threads |-> r.threads, messages |-> r.messages,
     outcome |-> [out EXCEPT !.failed = r.threw]]

----------------------------------------------------------------------------
(* llmOrchestrator.processNewMessage *)

\* the dispatch of lines 26-38
Dispatch(tid, decision, senv, fenv, thrs, msgs, t) ==
    CASE decision.actionType = "summary" ->
             generateAndPostSummary(tid, decision, senv, thrs, msgs, t)
      [] decision.actionType = "fact_check" ->
             performFactCheck(tid, decision, fenv, thrs, msgs, t)
      [] decision.actionType = "observation" ->
             postObservation(tid, decision, fenv, thrs, msgs, t)
      [] OTHER -> Done(thrs, msgs, "unknown")

processNewMessageRethrows(tid, decision, senv, fenv, thrs, msgs, t) ==
    IF decision.threw THEN Effect(Failed(thrs, msgs), Rejection("processNewMessage"))
    ELSE IF ~decision.shouldIntervene
    THEN Effect(Done(thrs, msgs, "none"),
                Report("processNewMessage", FALSE, decision.reason, "undefined"))
    ELSE LET r == Dispatch(tid, decision, senv, fenv, thrs, msgs, t)
         IN  IF r.threw THEN Effect(r, Rejection("processNewMessage"))
             ELSE IF r.actionType = "unknown"
                  THEN Effect(r, Report("processNewMessage", FALSE,
                                        "Unknown action type", "undefined"))
                  ELSE Effect(r, Report("processNewMessage", TRUE, "", r.actionType))

\* lines 15-43, given the Decision of shouldIntervene
processNewMessage(tid, decision, senv, fenv, thrs, msgs, t) ==
    IF decision.threw THEN Effect(Failed(thrs, msgs), ErrorReport("processNewMessage"))
    ELSE IF ~decision.shouldIntervene
    THEN Effect(Done(thrs, msgs, "none"),
                Report("processNewMessage", FALSE, decision.reason, "undefined"))
    ELSE LET r == Dispatch(tid, decision, senv, fenv, thrs, msgs, t)
         IN  IF r.threw THEN Effect(r, ErrorReport("processNewMessage"))
             ELSE IF r.actionType = "unknown"
                  THEN Effect(r, Report("processNewMessage", FALSE,
                                        "Unknown action type", "undefined"))
                  ELSE Effect(r, Report("processNewMessage", TRUE, "", r.actionType))

----------------------------------------------------------------------------
(* llmOrchestrator.handleExplicitRequest *)

ExplicitRequestKinds == {"summarize", "fact-check", "resolve", "summary"}

\* lines 50-55
ExplicitDecision(requestType) == Act("Explicit user request", requestType, "high")

\* a resolution is made up and posted as a facilitator message
generateResolutionFabricates(thrs, msgs) ==
    Effect(Done(thrs, Append(msgs, NewMessage(1, "llm_intervention", 0, "explicit_request")),
                "none"),
           Report("handleExplicitRequest", FALSE,
                  "Resolution generation not yet implemented", "undefined"))

\* lines 207-213
generateResolution(thrs, msgs) ==
    Effect(Done(thrs, msgs, "none"),
           Report("handleExplicitRequest", FALSE,
                  "Resolution generation not yet implemented", "undefined"))

PassOnCaught(r) ==
    IF r.threw THEN Effect(r, ErrorReport("handleExplicitRequest"))
    ELSE Effect(r, Report("handleExplicitRequest", TRUE, "", r.actionType))

\* a pipeline's result as handleExplicitRequest passes it on
PassOn(r) ==
    IF r.threw THEN Effect(r, Rejection("handleExplicitRequest"))
    ELSE Effect(r, Report("handleExplicitRequest", TRUE, "", r.actionType))

\* the claim text is looked at only after the fact-check has been posted
handleExplicitRequestChecksLate(tid, requestType, hasClaimText, senv, fenv, thrs, msgs, t) ==
    CASE requestType = "summarize" ->
             PassOn(generateAndPostSummary(tid, ExplicitDecision(requestType),
                                           senv, thrs, msgs, t))
      [] requestType = "fact-check" ->
             LET r == performFactCheck(tid, ExplicitDecision(requestType),
                                       fenv, thrs, msgs, t)
             IN  IF ~hasClaimText THEN PassOn(Failed(r.threads, r.messages))
                 ELSE PassOn(r)
      [] requestType = "resolve" -> generateResolution(thrs, msgs)
      [] OTHER -> PassOn(Failed(thrs, msgs))

\* lines 48-81: every error is logged and thrown again
handleExplicitRequest(tid, requestType, hasClaimText, senv, fenv, thrs, msgs, t) ==
    CASE requestType = "summarize" ->
             PassOn(generateAndPostSummary(tid, ExplicitDecision(requestType),
                                           senv, thrs, msgs, t))
      [] requestType = "fact-check" ->
             IF ~hasClaimText THEN PassOn(Failed(thrs, msgs))
             ELSE PassOn(performFactCheck(tid, ExplicitDecision(requestType),
                                          fenv, thrs, msgs, t))
      [] requestType = "resolve" -> generateResolution(thrs, msgs)
      [] OTHER -> PassOn(Failed(thrs, msgs))

----------------------------------------------------------------------------
(* routes/llm.js *)

RouteEffect(thrs, msgs, cls, out) ==
    [threads |-> thrs, messages |-> msgs, claims |-> cls, outcome |-> out]

\* POST /threads/:id/summarize: thread.save() comes before the message
summarizeRoute(tid, env, thrs, msgs, cls, t) ==
    LET op == "POST summarize" IN
    IF env.failAt = "threadFind" THEN RouteEffect(thrs, msgs, cls, Http(op, 500))
    ELSE IF tid \notin DOMAIN thrs THEN RouteEffect(thrs, msgs, cls, Http(op, 404))
    ELSE IF \/ env.failAt = "generate"
            \/ env.shape = "noKeyPoints"
            \/ env.failAt = "threadSave"
         THEN RouteEffect(thrs, msgs, cls, Http(op, 500))
    ELSE LET updated == [thrs EXCEPT ![tid].conversationState.keyPoints = env.topic,
                                     ![tid].lastSummaryAt = t]
         IN  IF env.failAt = "messageSave"
             THEN RouteEffect(updated, msgs, cls, Http(op, 500))
             ELSE RouteEffect(updated,
                              Append(msgs, NewMessage(tid, "llm_summary", t, "explicit_request")),
                              cls, Emitting(Http(op, 200), "new_summary"))

\* the status a Claim document is stored with: the schema default for undefined
StoredStatus(status) == IF status = "undefined" THEN "pending" ELSE status

\* POST /threads/:id/fact-check: claim.save() comes before the message;
\* Claim.messageId is required
factCheckRoute(tid, hasClaimText, hasMessageId, env, thrs, msgs, cls, t) ==
    LET op == "POST fact-check" IN
    IF ~hasClaimText THEN RouteEffect(thrs, msgs, cls, Http(op, 400))
    ELSE IF env.failAt = "threadFind" THEN RouteEffect(thrs, msgs, cls, Http(op, 500))
    ELSE IF tid \notin DOMAIN thrs THEN RouteEffect(thrs, msgs, cls, Http(op, 404))
    ELSE IF \/ env.failAt = "model"
            \/ ~hasMessageId
            \/ env.failAt = "claimSave"
         THEN RouteEffect(thrs, msgs, cls, Http(op, 500))
    ELSE LET stored == Append(cls, StoredStatus(env.status))
         IN  IF env.failAt = "messageSave"
             THEN RouteEffect(thrs, msgs, stored, Http(op, 500))
             ELSE RouteEffect(thrs,
                              Append(msgs, NewMessage(tid, "llm_fact_check", t, "explicit_request")),
                              stored, Emitting(Http(op, 200), "fact_check_complete"))

\* POST /threads/:id/resolve
resolveRoute(tid, findFails, thrs, msgs, cls) ==
    LET op == "POST resolve" IN
    IF findFails THEN RouteEffect(thrs, msgs, cls, Http(op, 500))
    ELSE IF tid \notin DOMAIN thrs THEN RouteEffect(thrs, msgs, cls, Http(op, 404))
    ELSE RouteEffect(thrs, msgs, cls,
                     [Http(op, 200) EXCEPT
                         !.reason = "Resolution generation not yet implemented"])

----------------------------------------------------------------------------
(* routes/threads.js POST /:id/messages and the Message pre-save hook. *)

\* findFails: Thread.findById rejects; save: validation rejects the document
\* (before the hook runs) or the insert fails (after it ran); hookFails: the
\* hook's findByIdAndUpdate rejects, which the hook swallows
PostEnvs ==
    { [findFails |-> TRUE, save |-> "ok", hookFails |-> FALSE],
      [findFails |-> FALSE, save |-> "validation", hookFails |-> FALSE],
      [findFails |-> FALSE, save |-> "ok", hookFails |-> FALSE] }

\* messageSchema.pre('save'): $inc messageCount for a new user message
preSave(thrs, tid, type, hookFails) ==
    IF type = "user" /\ ~hookFails /\ tid \in DOMAIN thrs
    THEN [thrs EXCEPT ![tid].messageCount = @ + 1]
    ELSE thrs

postMessageRouteNeedsModel(tid, env, thrs, msgs, cls, t) ==
    LET op == "POST message" IN
    IF env.findFails THEN RouteEffect(thrs, msgs, cls, Http(op, 400))
    ELSE IF tid \notin DOMAIN thrs THEN RouteEffect(thrs, msgs, cls, Http(op, 404))
    ELSE IF thrs[tid].isClosed THEN RouteEffect(thrs, msgs, cls, Http(op, 403))
    ELSE IF env.save # "ok" \/ backends.model # "up" \/ pending # <<>>
         THEN RouteEffect(thrs, msgs, cls, Http(op, 400))
    ELSE RouteEffect(preSave(thrs, tid, "user", env.hookFails),
                     Append(msgs, NewMessage(tid, "user", t, "none")),
                     cls, Emitting(Http(op, 201), "new_message"))

postMessageRoute(tid, env, thrs, msgs, cls, t) ==
    LET op == "POST message" IN
    IF env.findFails THEN RouteEffect(thrs, msgs, cls, Http(op, 400))
    ELSE IF tid \notin DOMAIN thrs THEN RouteEffect(thrs, msgs, cls, Http(op, 404))
    ELSE IF thrs[tid].isClosed THEN RouteEffect(thrs, msgs, cls, Http(op, 403))
    ELSE IF env.save = "validation" THEN RouteEffect(thrs, msgs, cls, Http(op, 400))
    ELSE IF env.save = "insert"
         THEN RouteEffect(preSave(thrs, tid, "user", env.hookFails), msgs, cls,
                          Http(op, 400))
    ELSE RouteEffect(preSave(thrs, tid, "user", env.hookFails),
                     Append(msgs, NewMessage(tid, "user", t, "none")),
                     cls, Emitting(Http(op, 201), "new_message"))

----------------------------------------------------------------------------
(* Spec: the handlers as actions on one stored thread. *)

MaxClaims == 1

Init ==
    /\ \E l \in Levels, a \in BOOLEAN :
         threads = (1 :> NewThread(l, a, MinFrequency))
    /\ messages = <<>>
    /\ claims = <<>>
    /\ now = 1
    /\ outcome = NoOutcome
    /\ call = NoCall
    /\ pending = <<>>
    /\ backends = BackendsUp

\* the bound of the model: a handler that may store a document runs while
\* the collection has room
RoomForMessage == Len(messages) < MaxMsgs
RoomForClaim == Len(claims) < MaxClaims

Tick ==
    /\ now < MaxTime
    /\ now' = now + 1
    /\ UNCHANGED <<threads, messages, claims, outcome, call, pending, backends>>

PostMessage ==
    /\ RoomForMessage
    /\ \E tid \in ThreadIds, env \in PostEnvs :
         LET e == postMessageRoute(tid, env, threads, messages, claims, now)
         IN  /\ threads' = e.threads
             /\ messages' = e.messages
             /\ outcome' = e.outcome
    /\ UNCHANGED <<claims, now, call, pending, backends>>

\* the messages a client addresses: the ones users wrote
UserMessageIds == { i \in DOMAIN messages : messages[i].messageType = "user" }

\* PATCH /api/messages/:id
EditMessage ==
    /\ \E i \in UserMessageIds, saveFails \in BOOLEAN :
         IF messages[i].isDeleted
         THEN /\ outcome' = Http("PATCH message", 410)
              /\ UNCHANGED messages
         ELSE IF saveFails
         THEN /\ outcome' = Http("PATCH message", 400)
              /\ UNCHANGED messages
         ELSE /\ messages' = [messages EXCEPT ![i].isEdited = TRUE]
              /\ outcome' = Emitting(Http("PATCH message", 200), "message_updated")
    /\ UNCHANGED <<threads, claims, now, call, pending, backends>>

\* DELETE /api/messages/:id
DeleteMessage ==
    /\ \E i \in UserMessageIds, saveFails \in BOOLEAN :
         IF saveFails
         THEN /\ outcome' = Http("DELETE message", 500)
              /\ UNCHANGED messages
         ELSE /\ messages' = [messages EXCEPT ![i].isDeleted = TRUE]
              /\ outcome' = Emitting(Http("DELETE message", 200), "message_deleted")
    /\ UNCHANGED <<threads, claims, now, call, pending, backends>>

\* POST /api/messages/:id/reactions: the mock user's reaction is toggled
ToggleReaction ==
    /\ \E i \in UserMessageIds, e \in {VerifyEmoji}, saveFails \in BOOLEAN :
         IF saveFails
         THEN /\ outcome' = Http("POST reaction", 400)
              /\ UNCHANGED messages
         ELSE /\ messages' = [messages EXCEPT ![i].reactions =
                                 IF e \in @ THEN @ \ {e} ELSE @ \cup {e}]
              /\ outcome' = Emitting(Http("POST reaction", 200), "message_reaction")
    /\ UNCHANGED <<threads, claims, now, call, pending, backends>>

\* the message objects processNewMessage is called with
ProcessedMessages == { Msg(<<"hello", "there">>), Msg(<<"studies", "show">>), MsgNoContent }

\* a handler's effects on the thread and message collections, and its answer
Apply(e) ==
    /\ threads' = e.threads
    /\ messages' = e.messages
    /\ outcome' = e.outcome

ProcessNewMessage ==
    /\ RoomForMessage
    /\ \E tid \in ThreadIds, m \in ProcessedMessages, penv \in StorageEnvs :
         LET d == shouldIntervene(tid, Ctx(FALSE, "undefined", m, NoReaction),
                                  penv, threads, messages)
         IN  IF d.actionType = "summary"
             THEN \E senv \in SummaryEnvs :
                    Apply(processNewMessage(tid, d, senv, DefaultFactCheckEnv,
                                            threads, messages, now))
             ELSE IF d.actionType \in {"fact_check", "observation"}
             THEN \E fenv \in FactCheckEnvs :
                    Apply(processNewMessage(tid, d, DefaultSummaryEnv, fenv,
                                            threads, messages, now))
             ELSE Apply(processNewMessage(tid, d, DefaultSummaryEnv, DefaultFactCheckEnv,
                                          threads, messages, now))
    /\ UNCHANGED <<claims, now, call, pending, backends>>

HandleExplicitRequest ==
    /\ RoomForMessage
    /\ \E tid \in ThreadIds, rt \in ExplicitRequestKinds :
         IF rt = "summarize"
         THEN \E senv \in SummaryEnvs :
                Apply(handleExplicitRequest(tid, rt, FALSE, senv, DefaultFactCheckEnv,
                                            threads, messages, now))
         ELSE IF rt = "fact-check"
         THEN \E hasClaimText \in BOOLEAN, fenv \in FactCheckEnvs :
                Apply(handleExplicitRequest(tid, rt, hasClaimText, DefaultSummaryEnv, fenv,
                                            threads, messages, now))
         ELSE Apply(handleExplicitRequest(tid, rt, FALSE, DefaultSummaryEnv,
                                          DefaultFactCheckEnv, threads, messages, now))
    /\ UNCHANGED <<claims, now, call, pending, backends>>

SummarizeRoute ==
    /\ RoomForMessage
    /\ \E tid \in ThreadIds, env \in SummaryEnvs :
         LET e == summarizeRoute(tid, env, threads, messages, claims, now)
         IN  /\ threads' = e.threads
             /\ messages' = e.messages
             /\ outcome' = e.outcome
    /\ UNCHANGED <<claims, now, call, pending, backends>>

FactCheckRoute ==
    /\ RoomForMessage
    /\ RoomForClaim
    /\ \E tid \in ThreadIds, hasClaimText \in BOOLEAN, hasMessageId \in BOOLEAN,
          env \in FactCheckEnvs :
         LET e == factCheckRoute(tid, hasClaimText, hasMessageId, env,
                                 threads, messages, claims, now)
         IN  /\ messages' = e.messages
             /\ claims' = e.claims
             /\ outcome' = e.outcome
    /\ UNCHANGED <<threads, now, call, pending, backends>>

ResolveRoute ==
    /\ \E tid \in ThreadIds, findFails \in BOOLEAN :
         outcome' = resolveRoute(tid, findFails, threads, messages, claims).outcome
    /\ UNCHANGED <<threads, messages, claims, now, call, pending, backends>>

----------------------------------------------------------------------------
(* processNewMessage in two steps: up to the pipeline's await, and from the *)
(* pipeline's answer on. Message posts and other calls interleave.          *)

MaxPending == 1

\* the model call of a pipeline fails when the backend is not up
SummaryEnvsGiven(b) ==
    { e \in SummaryEnvs : b.model # "up" => e.failAt = "generate" }
FactCheckEnvsGiven(b) ==
    { e \in FactCheckEnvs : b.model # "up" => e.failAt = "model" }

\* lines 15-24: the policy decided to act and the pipeline has been called
BeginIntervention ==
    /\ Len(pending) < MaxPending
    /\ \E tid \in ThreadIds, m \in ProcessedMessages :
         LET d == shouldIntervene(tid, Ctx(FALSE, "undefined", m, NoReaction),
                                  StorageOk, threads, messages)
         IN  /\ d.shouldIntervene
             /\ pending' = Append(pending, [tid |-> tid, decision |-> d])
    /\ UNCHANGED <<threads, messages, claims, now, outcome, call, backends>>

\* lines 26-42: the pipeline answers or throws, and the call returns
FinishIntervention ==
    /\ pending # <<>>
    /\ RoomForMessage
    /\ LET p == Head(pending)
       IN  IF p.decision.actionType = "summary"
           THEN \E senv \in SummaryEnvsGiven(backends) :
                  Apply(processNewMessage(p.tid, p.decision, senv, DefaultFactCheckEnv,
                                          threads, messages, now))
           ELSE \E fenv \in FactCheckEnvsGiven(backends) :
                  Apply(processNewMessage(p.tid, p.decision, DefaultSummaryEnv, fenv,
                                          threads, messages, now))
    /\ pending' = Tail(pending)
    /\ UNCHANGED <<claims, now, call, backends>>

\* a backend goes down, times out, answers garbage, or recovers
BackendChange ==
    /\ \E ms \in ModelStates, ss \in SearchStates :
         /\ [model |-> ms, search |-> ss] # backends
         /\ backends' = [model |-> ms, search |-> ss]
    /\ UNCHANGED <<threads, messages, claims, now, outcome, call, pending>>

\* Spec: the orchestrator at work on a thread that is posted to
Next ==
    \/ Tick
    \/ PostMessage
    \/ ProcessNewMessage
    \/ HandleExplicitRequest

Spec == Init /\ [][Next]_vars

\* SpecMessages: the message routes, with summaries from both paths
NextMessages ==
    \/ Tick
    \/ PostMessage
    \/ EditMessage
    \/ DeleteMessage
    \/ ToggleReaction
    \/ ProcessNewMessage
    \/ SummarizeRoute

\* an active thread with automatic summaries: every kind of facilitator
\* message can appear among the users' messages
InitMessages ==
    /\ threads = (1 :> NewThread("active", TRUE, MinFrequency))
    /\ messages = <<>>
    /\ claims = <<>>
    /\ now = 1
    /\ outcome = NoOutcome
    /\ call = NoCall
    /\ pending = <<>>
    /\ backends = BackendsUp

SpecMessages == InitMessages /\ [][NextMessages]_vars

\* SpecPosting: message posts while interventions are under way and the
\* backends come and go
NextPosting ==
    \/ Tick
    \/ PostMessage
    \/ BeginIntervention
    \/ FinishIntervention
    \/ BackendChange

SpecPosting == InitMessages /\ [][NextPosting]_vars

\* SpecRoutes: the facilitation routes and the orchestrator's explicit requests
NextRoutes ==
    \/ Tick
    \/ PostMessage
    \/ HandleExplicitRequest
    \/ SummarizeRoute
    \/ FactCheckRoute
    \/ ResolveRoute

SpecRoutes == Init /\ [][NextRoutes]_vars

----------------------------------------------------------------------------
(* utils/webSearch.js *)

MaxResults == 6

\* process.env.SERPAPI_KEY
SerpKeys == {"undefined", "", "key"}
KeyConfigured(key) == key \notin Falsy

\* the limit argument: the default, and a small one
DefaultLimit == 10
Limits == {2, DefaultLimit}

----------------------------------------------------------------------------
(* utils/webSearch.js getSourceCredibility.  A hostname is a sequence of    *)
(* pieces of text, "." among them, so that includes() and endsWith() are    *)
(* the substring and suffix tests they are in the code.                     *)

MaxHostLen == 3

HostPieces == {"gov", "GOV", "edu", "who", "int", "wikipedia", "org", "example", "com", "."}

\* hostnames a URL can carry: no empty label
WellFormedHost(h) ==
    /\ Len(h) >= 1
    /\ h[1] # "." /\ h[Len(h)] # "."
    /\ \A i \in 1..(Len(h) - 1) : ~(h[i] = "." /\ h[i + 1] = ".")

HostsOfLen(n) == { h \in [1..n -> HostPieces] : WellFormedHost(h) }
Hosts == UNION { HostsOfLen(n) : n \in 1..MaxHostLen }

\* a url string: one new URL() accepts, with its host, or one it rejects
Url(parsable, host) == [parsable |-> parsable, host |-> host]
BadUrl == Url(FALSE, <<>>)
Urls == {BadUrl} \cup { Url(TRUE, h) : h \in Hosts }

\* String.prototype.toLowerCase on a piece of text
ToLowerCase(piece) ==
    CASE piece = "GOV" -> "gov"
      [] piece = "Studies" -> "studies"
      [] piece = "Cancer" -> "cancer"
      [] OTHER -> piece

\* new URL(url).hostname.toLowerCase()
Hostname(url) == [i \in DOMAIN url.host |-> ToLowerCase(url.host[i])]

\* String.prototype.includes
Includes(text, part) ==
    \E i \in 0..(Len(text) - Len(part)) : SubSeq(text, i + 1, i + Len(part)) = part

\* String.prototype.endsWith
EndsWith(text, part) ==
    /\ Len(part) <= Len(text)
    /\ SubSeq(text, Len(text) - Len(part) + 1, Len(text)) = part

highCredibility ==
    { <<"gov">>, <<"edu">>, <<"who", ".", "int">>, <<"cdc", ".", "gov">>,
      <<"nih", ".", "gov">>, <<"nature", ".", "com">>, <<"science", ".", "org">>,
      <<"sciencemag", ".", "org">>, <<"reuters", ".", "com">>, <<"apnews", ".", "com">>,
      <<"bbc", ".", "com">>, <<"snopes", ".", "com">>, <<"factcheck", ".", "org">>,
      <<"politifact", ".", "com">> }

mediumCredibility ==
    { <<"wikipedia", ".", "org">>, <<"britannica", ".", "com">>,
      <<"nytimes", ".", "com">>, <<"washingtonpost", ".", "com">>,
      <<"wsj", ".", "com">>, <<"theguardian", ".", "com">>,
      <<"economist", ".", "com">> }

\* the score in hundredths
getSourceCredibility(url) ==
    IF ~url.parsable THEN 50
    ELSE LET domain == Hostname(url)
         IN  IF \E trusted \in highCredibility : Includes(domain, trusted) THEN 90
             ELSE IF \E med \in mediumCredibility : Includes(domain, med) THEN 70
             ELSE IF EndsWith(domain, <<".", "gov">>) \/ EndsWith(domain, <<".", "edu">>)
                  THEN 85
             ELSE 50

\* the url of a search result: the backends answer with pages of any site;
\* the results of a search are taken to come from these sites, by rank
ResultUrl(rank) ==
    CASE rank = 0 -> Url(TRUE, <<"wikipedia", ".", "org">>)
      [] rank = 1 -> Url(TRUE, <<"who", ".", "int">>)
      [] rank = 2 -> Url(TRUE, <<"example", ".", "com">>)
      [] rank = 3 -> Url(TRUE, <<"example", ".", "gov">>)
      [] OTHER -> BadUrl

SearchResult(source, rank) ==
    [source |-> source, rank |-> rank, url |-> ResultUrl(rank)]

\* the whole list, whatever the cap
SliceUncapped(seq, n) == seq

\* Array.prototype.slice(0, n) for n >= 0
Slice(seq, n) == SubSeq(seq, 1, IF n < Len(seq) THEN n ELSE Len(seq))

\* what the request to serpapi.com does: it fails (network, quota, timeout)
\* or answers with a number of organic results
SerpOutcomes == { [fails |-> f, organic |-> n] : f \in BOOLEAN, n \in {0, 1, MaxResults} }

\* what the request to api.duckduckgo.com does: it fails, or answers with or
\* without an abstract and with a number of usable related topics
DdgOutcomes ==
    { [fails |-> TRUE, abstract |-> FALSE, topics |-> 0] }
    \cup { [fails |-> FALSE, abstract |-> a, topics |-> n] :
             a \in BOOLEAN, n \in {0, 2, MaxResults} }

\* searchWithSerpAPI
searchWithSerpAPI(key, serp, limit) ==
    IF ~KeyConfigured(key) THEN [threw |-> TRUE, results |-> <<>>, requests |-> 0]
    ELSE IF serp.fails THEN [threw |-> TRUE, results |-> <<>>, requests |-> 1]
    ELSE [threw |-> FALSE,
          results |-> [i \in 1..serp.organic |-> SearchResult("serpapi", i)],
          requests |-> 1]

\* searchDuckDuckGo: every error becomes the empty list
searchDuckDuckGo(ddg, limit) ==
    IF ddg.fails THEN [threw |-> FALSE, results |-> <<>>, requests |-> 1]
    ELSE LET abstract == IF ddg.abstract THEN <<SearchResult("duckduckgo", 0)>> ELSE <<>>
             topics == Slice([i \in 1..ddg.topics |-> SearchResult("duckduckgo", i)],
                             limit - 1)
         IN  [threw |-> FALSE, results |-> Slice(abstract \o topics, limit),
              requests |-> 1]

\* the backends asked, in order, with the number of requests each received
Asked(name, r) == [i \in 1..r.requests |-> name]

searchWebNoFallback(key, serp, ddg, limit) ==
    IF KeyConfigured(key)
    THEN LET sr == searchWithSerpAPI(key, serp, limit)
         IN  [threw |-> FALSE, results |-> sr.results, asked |-> Asked("serpapi", sr)]
    ELSE LET dr == searchDuckDuckGo(ddg, limit)
         IN  [threw |-> dr.threw, results |-> dr.results, asked |-> Asked("duckduckgo", dr)]

\* searchWeb
searchWeb(key, serp, ddg, limit) ==
    LET sr == searchWithSerpAPI(key, serp, limit)
        dr == searchDuckDuckGo(ddg, limit)
    IN  IF KeyConfigured(key) /\ ~sr.threw
        THEN [threw |-> FALSE, results |-> sr.results, asked |-> Asked("serpapi", sr)]
        ELSE LET before == IF KeyConfigured(key) THEN Asked("serpapi", sr) ELSE <<>>
             IN  IF dr.threw
                 THEN [threw |-> FALSE, results |-> <<>>,
                       asked |-> before \o Asked("duckduckgo", dr)]
                 ELSE [threw |-> FALSE, results |-> dr.results,
                       asked |-> before \o Asked("duckduckgo", dr)]

----------------------------------------------------------------------------
(* utils/claimDetector.js detectClaimsInText.  A text is a sequence of      *)
(* words as written (capitals kept) with "." for the end of a sentence;     *)
(* keywords are matched word by word.                                       *)

MaxDetectLen == 7

DetectWords == {"Studies", "studies", "show", "."}

DetectTexts ==
    UNION { [1..n -> DetectWords] : n \in 0..MaxDetectLen }
    \cup { <<"cancer", "spreads", "everywhere", ".", "Cancer", "spreads", "everywhere">>,
           <<"studies", "show", "cancer", "spreads", "everywhere">>,
           <<"cancer", "spreads">>,
           <<"always", "causes", "cancer", ".", "90%", "of", "people", "agree">>,
           <<"illegal", "downloads", "everywhere", ".", "guaranteed", "return", "everywhere">> }

LowerText(text) == [i \in DOMAIN text |-> ToLowerCase(text[i])]

\* the number of characters of a word
WordChars(word) ==
    CASE word = "." -> 1
      [] word \in {"of", "to", "in", "no"} -> 2
      [] word = "90%" -> 3
      [] word = "show" -> 4
      [] word \in {"always", "cancer", "causes", "people", "return"} -> 6
      [] word \in {"studies", "Studies", "spreads", "illegal"} -> 7
      [] word = "downloads" -> 9
      [] word \in {"everywhere", "guaranteed"} -> 10
      [] OTHER -> 5

\* match.length: the words and the blanks between them
RECURSIVE TextChars(_)
TextChars(text) ==
    IF text = <<>> THEN 0
    ELSE IF Len(text) = 1 THEN WordChars(text[1])
    ELSE WordChars(text[1]) + 1 + TextChars(Tail(text))

Quantifiers == {"always", "never", "every", "all", "none", "no"}

\* the pattern families in the order of the source: how a match may start
\* (the regular expression up to [^.!?]+), the type and confidence (in
\* hundredths) of its claims, and the length a match must exceed
ClaimPatterns ==
    << [starts |-> { << {"90%"}, {"of"} >> },
        claimType |-> "statistical", confidence |-> 80, longerThan |-> 0],
       [starts |-> { << {"9"}, {"out"}, {"of"}, {"10"} >>, << {"9"}, {"in"}, {"10"} >> },
        claimType |-> "statistical", confidence |-> 80, longerThan |-> 0],
       [starts |-> { << {"according"}, {"to"} >>,
                     << {"research"}, {"show", "shows"} >>,
                     << {"studies", "study"}, {"show", "prove", "suggest"} >> },
        claimType |-> "statistical", confidence |-> 80, longerThan |-> 0],
       [starts |-> { << {"cures", "cure", "treats", "treat", "prevents", "prevent",
                         "causes", "cause", "heals", "heal", "cancer", "diabetes",
                         "disease", "illness", "symptom", "medicine", "drug",
                         "therapy", "treatment"} >> },
        claimType |-> "health", confidence |-> 85, longerThan |-> 20],
       [starts |-> { << {"illegal", "unlawful", "legal", "guaranteed", "return",
                         "profit", "investment"} >>,
                     << {"law"}, {"requires", "require"} >> },
        claimType |-> "legal or financial", confidence |-> 80, longerThan |-> 20],
       [starts |-> { << Quantifiers, {"causes", "cause"} >>,
                     << Quantifiers, {"results", "result"}, {"in"} >>,
                     << Quantifiers, {"leads", "lead"}, {"to"} >>,
                     << Quantifiers, {"means", "mean"} >> },
        claimType |-> "factual", confidence |-> 70, longerThan |-> 0] >>

\* the pattern can start at position i: its keywords are there, whatever
\* their case, and a word of the same sentence follows them
StartsAt(text, i, starts) ==
    \E alt \in starts :
        /\ MatchesAt(LowerText(text), i, alt)
        /\ i + Len(alt) <= Len(text)
        /\ text[i + Len(alt)] # "."

\* [^.!?]+ is greedy: the match runs to the end of the sentence
SentenceEnd(text, i) ==
    Minimum({ e \in i..Len(text) : e = Len(text) \/ text[e + 1] = "." })

\* text.match(pattern) with the g flag: the matches from left to right, each
\* search starting after the previous match
RECURSIVE MatchAll(_, _, _)
MatchAll(text, starts, i) ==
    IF i > Len(text) THEN <<>>
    ELSE IF StartsAt(text, i, starts)
    THEN <<SubSeq(text, i, SentenceEnd(text, i))>>
           \o MatchAll(text, starts, SentenceEnd(text, i) + 1)
    ELSE MatchAll(text, starts, i + 1)

\* /illegal|unlawful|law|legal/i.test(match)
TypeOf(pattern, match) ==
    IF pattern.claimType # "legal or financial" THEN pattern.claimType
    ELSE IF \E k \in DOMAIN match :
               ToLowerCase(match[k]) \in {"illegal", "unlawful", "law", "legal"}
    THEN "legal" ELSE "financial"

\* every match becomes a claim, whatever its length
ClaimsOfUnfiltered(text, pattern) ==
    LET matches == MatchAll(text, pattern.starts, 1)
    IN  [k \in DOMAIN matches |->
           [claimText |-> matches[k], claimType |-> TypeOf(pattern, matches[k]),
            confidence |-> pattern.confidence, shouldVerify |-> TRUE]]

\* claims.push for the matches of one pattern
ClaimsOf(text, pattern) ==
    LET matches == SelectSeq(MatchAll(text, pattern.starts, 1),
                             LAMBDA m : TextChars(m) > pattern.longerThan)
    IN  [k \in DOMAIN matches |->
           [claimText |-> matches[k], claimType |-> TypeOf(pattern, matches[k]),
            confidence |-> pattern.confidence, shouldVerify |-> TRUE]]

\* the claims array before the duplicates are removed
RECURSIVE CandidateClaims(_, _)
CandidateClaims(text, k) ==
    IF k > Len(ClaimPatterns) THEN <<>>
    ELSE ClaimsOf(text, ClaimPatterns[k]) \o CandidateClaims(text, k + 1)

\* the text as written is what is remembered
SeenKeyAsWritten(claimText) == claimText

\* claim.claimText.toLowerCase(), the member of seenTexts
SeenKey(claimText) == LowerText(claimText)

\* claims.forEach: a claim is kept when its key has not been seen
RECURSIVE RemoveDuplicates(_, _)
RemoveDuplicates(candidates, seenTexts) ==
    IF candidates = <<>> THEN <<>>
    ELSE IF SeenKey(Head(candidates).claimText) \in seenTexts
    THEN RemoveDuplicates(Tail(candidates), seenTexts)
    ELSE <<Head(candidates)>>
           \o RemoveDuplicates(Tail(candidates),
                               seenTexts \cup {SeenKey(Head(candidates).claimText)})

detectClaimsInText(text) == RemoveDuplicates(CandidateClaims(text, 1), {})

----------------------------------------------------------------------------
(* services/ollamaClient.js generateCompletion *)

Formats == {"undefined", "json", "text"}

\* the fields a fact-check prompt asks the model for, as the model may send
\* them; confidence in hundredths
ModelStatuses == {"verified", "unverified", "disputed", "uncertain", "maybe", "undefined"}
ModelConfidences == {-50, 0, 85, 100, 150}

\* response.data.response as the model backend sends it: a text that parses
\* as JSON (an object with or without the fields, an array, a number, null),
\* a text that does not, or no text at all
Body(kind, status, hasConfidence, confidence) ==
    [kind |-> kind, status |-> status, hasConfidence |-> hasConfidence,
     confidence |-> confidence]
ParsableKinds == {"object", "array", "number", "null"}
UnparsableKinds == {"prose", "truncated", "", "undefined"}
Bodies ==
    { Body(k, "undefined", FALSE, 0) : k \in (ParsableKinds \ {"object"}) \cup UnparsableKinds }
    \cup { Body("object", st, TRUE, c) : st \in ModelStatuses, c \in ModelConfidences }
    \cup { Body("object", st, FALSE, 0) : st \in ModelStatuses }
NoBody == Body("undefined", "undefined", FALSE, 0)

\* what axios.post does
HttpOutcomes ==
    { [kind |-> k, body |-> NoBody] :
        k \in {"ECONNREFUSED", "ECONNABORTED", "status404", "status500"} }
    \cup { [kind |-> "ok", body |-> b] : b \in Bodies }

\* JSON.parse: the value, or a SyntaxError; raw marks the unparsed text
JSONParse(body) ==
    IF body.kind \in ParsableKinds
    THEN [threw |-> FALSE, value |-> [raw |-> FALSE, of |-> body]]
    ELSE [threw |-> TRUE, value |-> [raw |-> TRUE, of |-> body]]

\* the error axios.post rejects with: its code and the status of its response
AxiosError(http) ==
    [code |-> IF http.kind \in {"ECONNREFUSED", "ECONNABORTED"} THEN http.kind
              ELSE "ERR_BAD_RESPONSE",
     status |-> IF http.kind = "status404" THEN 404
                ELSE IF http.kind = "status500" THEN 500 ELSE 0,
     message |-> http.kind]

\* new Error('Model did not return valid JSON')
ParseError == [code |-> "undefined", status |-> 0, message |-> "invalid JSON"]

CompletionError(message) ==
    [threw |-> TRUE, error |-> message, response |-> [raw |-> TRUE, of |-> NoBody]]

CompletionValue(response) == [threw |-> FALSE, error |-> "none", response |-> response]

OuterCatchNoModelCheck(err) ==
    IF err.code = "ECONNREFUSED" THEN CompletionError("service not running")
    ELSE CompletionError(err.message)

\* the outer catch, lines 90-98
OuterCatch(err) ==
    IF err.code = "ECONNREFUSED" THEN CompletionError("service not running")
    ELSE IF err.status = 404 THEN CompletionError("model not found")
    ELSE CompletionError(err.message)

generateCompletionReturnsRaw(format, http) ==
    IF http.kind # "ok" THEN OuterCatch(AxiosError(http))
    ELSE IF format \in {"undefined", "json"} /\ ~JSONParse(http.body).threw
         THEN CompletionValue(JSONParse(http.body).value)
         ELSE CompletionValue([raw |-> TRUE, of |-> http.body])

\* generateCompletion; format defaults to 'json'
generateCompletion(format, http) ==
    IF http.kind # "ok" THEN OuterCatch(AxiosError(http))
    ELSE IF format \in {"undefined", "json"}
         THEN IF JSONParse(http.body).threw
              THEN OuterCatch(ParseError)
              ELSE CompletionValue(JSONParse(http.body).value)
         ELSE CompletionValue([raw |-> TRUE, of |-> http.body])

----------------------------------------------------------------------------
(* services/factCheckService.js factCheckClaim, services/summaryService.js *)
(* generateSummary: what they ask of the backends and what they return.    *)

EvidenceCap == 5
\* credibilityScore: 0.7, in hundredths
FixedCredibility == 70

EvidenceItem(result) ==
    [result |-> result, credibilityScore |-> FixedCredibility, supports |-> TRUE]

ServiceFailure(error, asked, modelCalls) ==
    [threw |-> TRUE, error |-> error, status |-> "undefined", hasConfidence |-> FALSE,
     confidence |-> 0, evidence |-> <<>>, shown |-> <<>>, searchResultsFound |-> 0,
     asked |-> asked, modelCalls |-> modelCalls]

\* the model is asked again when its first answer is a failure
factCheckClaimRetries(key, serp, ddg, http) ==
    LET search == searchWeb(key, serp, ddg, DefaultLimit)
        result == generateCompletion("json", http)
    IN  IF result.threw THEN ServiceFailure(result.error, search.asked, 2)
        ELSE IF result.response.of.kind = "null"
        THEN ServiceFailure("TypeError", search.asked, 1)
        ELSE [threw |-> FALSE, error |-> "none",
              status |-> result.response.of.status,
              hasConfidence |-> result.response.of.hasConfidence,
              confidence |-> result.response.of.confidence,
              evidence |-> [i \in 1..Len(Slice(search.results, EvidenceCap)) |->
                              EvidenceItem(search.results[i])],
              shown |-> Slice(search.results, EvidenceCap),
              searchResultsFound |-> Len(search.results),
              asked |-> search.asked, modelCalls |-> 1]

\* factCheckClaim: one search, one model call; status and confidence are the
\* fields of the parsed answer (undefined for an array or a number, a
\* TypeError for null)
factCheckClaim(key, serp, ddg, http) ==
    LET search == searchWeb(key, serp, ddg, DefaultLimit)
        result == generateCompletion("json", http)
    IN  IF result.threw THEN ServiceFailure(result.error, search.asked, 1)
        ELSE IF result.response.of.kind = "null"
        THEN ServiceFailure("TypeError", search.asked, 1)
        ELSE [threw |-> FALSE, error |-> "none",
              status |-> result.response.of.status,
              hasConfidence |-> result.response.of.hasConfidence,
              confidence |-> result.response.of.confidence,
              evidence |-> [i \in 1..Len(Slice(search.results, EvidenceCap)) |->
                              EvidenceItem(search.results[i])],
              shown |-> Slice(search.results, EvidenceCap),
              searchResultsFound |-> Len(search.results),
              asked |-> search.asked, modelCalls |-> 1]

\* summaryService.shouldGenerateSummary: the thread's total messageCount is
\* compared with the frequency, before and after a first summary
shouldGenerateSummary(thread) ==
    IF ~thread.settings.autoSummaryEnabled THEN FALSE
    ELSE IF thread.lastSummaryAt = 0
    THEN thread.messageCount >= thread.settings.summaryFrequency
    ELSE thread.messageCount >= thread.settings.summaryFrequency

\* generateSummary: thread lookup, message query, one model call
generateSummary(tid, thrs, queryFails, http) ==
    IF tid \notin DOMAIN thrs THEN ServiceFailure("Thread not found", <<>>, 0)
    ELSE IF queryFails THEN ServiceFailure("query", <<>>, 0)
    ELSE LET result == generateCompletion("json", http)
         IN  IF result.threw THEN ServiceFailure(result.error, <<>>, 1)
             ELSE [ServiceFailure("none", <<>>, 1) EXCEPT !.threw = FALSE]

----------------------------------------------------------------------------
(* SpecServices: one call of a service function on bounded inputs. *)

ServiceNames ==
    {"searchWeb", "generateCompletion", "factCheckClaim", "generateSummary",
     "getSourceCredibility"}

NoInput ==
    [key |-> "undefined", serp |-> [fails |-> FALSE, organic |-> 0],
     ddg |-> [fails |-> FALSE, abstract |-> FALSE, topics |-> 0],
     limit |-> DefaultLimit, format |-> "json",
     http |-> [kind |-> "ok", body |-> NoBody], tid |-> 1, queryFails |-> FALSE,
     url |-> BadUrl, text |-> <<>>]

ServiceInputs(fn) ==
    CASE fn = "searchWeb" ->
           { [NoInput EXCEPT !.key = k, !.serp = s, !.ddg = d, !.limit = l] :
               k \in SerpKeys, s \in SerpOutcomes, d \in DdgOutcomes, l \in Limits }
      [] fn = "generateCompletion" ->
           { [NoInput EXCEPT !.format = f, !.http = h] : f \in Formats, h \in HttpOutcomes }
      [] fn = "factCheckClaim" ->
           { [NoInput EXCEPT !.key = k, !.serp = s, !.ddg = d, !.http = h] :
               k \in SerpKeys, s \in SerpOutcomes, d \in DdgOutcomes, h \in HttpOutcomes }
      [] fn = "generateSummary" ->
           { [NoInput EXCEPT !.tid = t, !.queryFails = q, !.http = h] :
               t \in ThreadIds, q \in BOOLEAN, h \in HttpOutcomes }
      [] fn = "getSourceCredibility" ->
           { [NoInput EXCEPT !.url = u] : u \in Urls }

InitServices ==
    /\ threads = (1 :> NewThread("balanced", TRUE, MinFrequency))
    /\ messages = <<>>
    /\ claims = <<>>
    /\ now = 1
    /\ outcome = NoOutcome
    /\ pending = <<>>
    /\ backends = BackendsUp
    /\ \E fn \in ServiceNames :
         \E args \in ServiceInputs(fn) :
           call = [made |-> FALSE, fn |-> fn, args |-> args, result |-> NoInput]

\* the call returns (or throws): its result is recorded
Returned(out) == [call EXCEPT !.made = TRUE, !.result = out]

SearchCall ==
    /\ ~call.made
    /\ call.fn = "searchWeb"
    /\ call' = Returned(searchWeb(call.args.key, call.args.serp, call.args.ddg,
                                  call.args.limit))
    /\ UNCHANGED <<threads, messages, claims, now, outcome, pending, backends>>

CompletionCall ==
    /\ ~call.made
    /\ call.fn = "generateCompletion"
    /\ call' = Returned(generateCompletion(call.args.format, call.args.http))
    /\ UNCHANGED <<threads, messages, claims, now, outcome, pending, backends>>

FactCheckCall ==
    /\ ~call.made
    /\ call.fn = "factCheckClaim"
    /\ call' = Returned(factCheckClaim(call.args.key, call.args.serp, call.args.ddg,
                                       call.args.http))
    /\ UNCHANGED <<threads, messages, claims, now, outcome, pending, backends>>

SummaryCall ==
    /\ ~call.made
    /\ call.fn = "generateSummary"
    /\ call' = Returned(generateSummary(call.args.tid, threads, call.args.queryFails,
                                        call.args.http))
    /\ UNCHANGED <<threads, messages, claims, now, outcome, pending, backends>>

CredibilityCall ==
    /\ ~call.made
    /\ call.fn = "getSourceCredibility"
    /\ call' = Returned([score |-> getSourceCredibility(call.args.url)])
    /\ UNCHANGED <<threads, messages, claims, now, outcome, pending, backends>>

NextServices ==
    \/ CredibilityCall
    \/ SearchCall
    \/ CompletionCall
    \/ FactCheckCall
    \/ SummaryCall

SpecServices == InitServices /\ [][NextServices]_vars

----------------------------------------------------------------------------
(* SpecDetector: one call of detectClaimsInText on a bounded text. *)

InitDetector ==
    /\ threads = (1 :> NewThread("balanced", TRUE, MinFrequency))
    /\ messages = <<>>
    /\ claims = <<>>
    /\ now = 1
    /\ outcome = NoOutcome
    /\ pending = <<>>
    /\ backends = BackendsUp
    /\ \E text \in DetectTexts :
         call = [made |-> FALSE, fn |-> "detectClaimsInText",
                 args |-> [NoInput EXCEPT !.text = text], result |-> NoInput]

DetectCall ==
    /\ ~call.made
    /\ call.fn = "detectClaimsInText"
    /\ call' = Returned([claims |-> detectClaimsInText(call.args.text)])
    /\ UNCHANGED <<threads, messages, claims, now, outcome, pending, backends>>

NextDetector == DetectCall

SpecDetector == InitDetector /\ [][NextDetector]_vars

----------------------------------------------------------------------------
(* SpecSummaries: summarizations of one thread, step by step.  Every await  *)
(* of a summarization is a point where another one may run: the lookup of   *)
(* generateSummary, the model call, the message save, the orchestrator's    *)
(* Thread.findById and each thread.save().  Storage is taken to succeed     *)
(* here; the model call may fail.                                           *)

MaxInFlight == 2
MaxSummaries == 2

\* the topic statement (whatThisThreadIsAbout) of a summary the model returns
SummaryTopics == {"T1", "T2"}

\* who summarizes: processNewMessage, handleExplicitRequest, POST summarize
SummaryPaths == {"automatic", "explicit", "route"}

\* thread.conversationState?.activeTopic || 'None yet'
PreviousSummary(thread) ==
    IF thread.conversationState.activeTopic \in Falsy THEN "None yet"
    ELSE thread.conversationState.activeTopic

\* the awaits of a summarization after its start, in the order of the code
StepsOf(path) ==
    IF path = "route"
    THEN <<"lookup", "generate", "saveThread", "saveMessage">>
    ELSE <<"lookup", "generate", "saveMessage", "findThread", "saveThread">>

StepAfter(path, pc) ==
    LET steps == StepsOf(path)
        i == CHOOSE k \in DOMAIN steps : steps[k] = pc
    IN  IF i = Len(steps) THEN "done" ELSE steps[i + 1]

Remove(seq, i) == SubSeq(seq, 1, i - 1) \o SubSeq(seq, i + 1, Len(seq))

SummaryMessages == { i \in DOMAIN messages : messages[i].messageType = "llm_summary" }

\* the conversation state a summarization assigns to its thread document:
\* the orchestrator sets activeTopic and the three lists, the route the
\* three lists only (keyPoints stands for the three lists, always written
\* together)
AssignedState(path, doc, topic) ==
    IF path = "route"
    THEN [doc.conversationState EXCEPT !.keyPoints = topic]
    ELSE [doc.conversationState EXCEPT !.activeTopic = topic, !.keyPoints = topic]

\* thread.save() of a document read earlier: the assigned nested object is
\* written whole, or only its sub-fields that differ from the values read
SavedState(stored, doc, assigned, whole) ==
    IF whole THEN assigned
    ELSE [f \in DOMAIN assigned |->
            IF assigned[f] # doc.conversationState[f] THEN assigned[f]
            ELSE stored.conversationState[f]]

\* what the summarization answers when it ends
SummaryAnswer(path, ok) ==
    CASE path = "route" ->
           IF ok THEN Emitting(Http("POST summarize", 200), "new_summary")
           ELSE Http("POST summarize", 500)
      [] path = "explicit" ->
           IF ok THEN Report("handleExplicitRequest", TRUE, "", "summary")
           ELSE [Rejection("handleExplicitRequest") EXCEPT !.failed = TRUE]
      [] OTHER ->
           IF ok THEN Report("processNewMessage", TRUE, "", "summary")
           ELSE [ErrorReport("processNewMessage") EXCEPT !.failed = TRUE]

InitSummaries ==
    /\ threads = (1 :> [NewThread("balanced", TRUE, MinFrequency)
                          EXCEPT !.messageCount = MinFrequency])
    /\ messages = [i \in 1..MinFrequency |-> NewMessage(1, "user", 1, "none")]
    /\ claims = <<>>
    /\ now = 1
    /\ outcome = NoOutcome
    /\ call = NoCall
    /\ pending = <<>>
    /\ backends = BackendsUp

\* the step a summarization moves to, or its end
Advance(i, changed) ==
    LET r == pending[i]
        pc == StepAfter(r.path, r.pc)
    IN  IF pc = "done"
        THEN /\ pending' = Remove(pending, i)
             /\ outcome' = SummaryAnswer(r.path, TRUE)
        ELSE /\ pending' = [pending EXCEPT ![i] = [changed EXCEPT !.pc = pc]]
             /\ UNCHANGED outcome

\* a handler is entered: processNewMessage once shouldIntervene has decided
\* on a summary, handleExplicitRequest('summarize'), or the route once its
\* Thread.findById has answered; concurrent notes that another summarization
\* was in flight during this one
StartSummary ==
    /\ Len(pending) < MaxInFlight
    /\ Cardinality(SummaryMessages) + Len(pending) < MaxSummaries
    /\ \E path \in SummaryPaths :
         /\ path = "automatic" =>
              shouldIntervene(1, Ctx(FALSE, "undefined", Msg(<<"hello", "there">>),
                                     NoReaction),
                              StorageOk, threads, messages).actionType = "summary"
         /\ pending' = Append([i \in DOMAIN pending |->
                                  [pending[i] EXCEPT !.concurrent = TRUE]],
                              [path |-> path, pc |-> "lookup", doc |-> threads[1],
                               previous |-> "unread", topic |-> "none",
                               savedAt |-> 0, concurrent |-> pending # <<>>])
    /\ UNCHANGED <<threads, messages, claims, now, outcome, call, backends>>

\* generateSummary: Thread.findById and the previous summary for the prompt
LookupPrevious ==
    /\ \E i \in DOMAIN pending :
         /\ pending[i].pc = "lookup"
         /\ Advance(i, [pending[i] EXCEPT !.previous = PreviousSummary(threads[1])])
    /\ UNCHANGED <<threads, messages, claims, now, call, backends>>

\* the model call answers with a summary or fails; the route assigns the new
\* state to the document it read at its start and calls thread.save()
ModelReturns ==
    /\ \E i \in DOMAIN pending :
         /\ pending[i].pc = "generate"
         /\ \/ \E topic \in SummaryTopics :
                 Advance(i, [pending[i] EXCEPT !.topic = topic, !.savedAt = now])
            \/ /\ pending' = Remove(pending, i)
               /\ outcome' = SummaryAnswer(pending[i].path, FALSE)
    /\ UNCHANGED <<threads, messages, claims, now, call, backends>>

\* interventionMessage.save() / summaryMessage.save()
SaveSummaryMessage ==
    /\ \E i \in DOMAIN pending :
         /\ pending[i].pc = "saveMessage"
         /\ messages' = Append(messages,
               NewMessage(1, "llm_summary", now,
                          IF pending[i].path = "automatic" THEN "automatic"
                          ELSE "explicit_request"))
         /\ Advance(i, pending[i])
    /\ UNCHANGED <<threads, claims, now, call, backends>>

\* the orchestrator's Thread.findById answers; the new state is assigned to
\* the document read and thread.save() is called
FindThread ==
    /\ \E i \in DOMAIN pending :
         /\ pending[i].pc = "findThread"
         /\ Advance(i, [pending[i] EXCEPT !.doc = threads[1], !.savedAt = now])
    /\ UNCHANGED <<threads, messages, claims, now, call, backends>>

\* thread.save() reaches the collection
SaveThread ==
    /\ \E i \in DOMAIN pending, whole \in BOOLEAN :
         LET r == pending[i]
         IN  /\ r.pc = "saveThread"
             /\ threads' = [threads EXCEPT
                   ![1].conversationState =
                       SavedState(threads[1], r.doc,
                                  AssignedState(r.path, r.doc, r.topic), whole),
                   ![1].lastSummaryAt = r.savedAt]
             /\ Advance(i, r)
    /\ UNCHANGED <<messages, claims, now, call, backends>>

NextSummaries ==
    \/ StartSummary
    \/ LookupPrevious
    \/ ModelReturns
    \/ SaveSummaryMessage
    \/ FindThread
    \/ SaveThread

SpecSummaries == InitSummaries /\ [][NextSummaries]_vars

----------------------------------------------------------------------------
(* Properties of the policy, over the calls of SpecPolicy. *)

Decided == call.made
OnStoredThread == call.tid \in DOMAIN threads
CalledThread == threads[1]
NoExplicitRequest == ~call.ctx.explicitRequest

\* the evaluation's storage calls succeed: the lookup, and the count query
\* where the code issues one
StorageSucceeds ==
    /\ ~call.env.findFails
    /\ ~(call.env.countFails /\ CalledThread.lastSummaryAt # 0)

MessagesSinceLastSummary == getMessagesSinceLastSummary(1, CalledThread, messages)

SummaryDue ==
    /\ CalledThread.settings.autoSummaryEnabled
    /\ MessagesSinceLastSummary >= CalledThread.settings.summaryFrequency

VerifyReactionEvent ==
    /\ NoExplicitRequest
    /\ ~call.ctx.newMessage.present
    /\ call.ctx.reaction.present
    /\ call.ctx.reaction.emoji = VerifyEmoji

\* C1: on a thread whose interventionLevel is minimal, an event context
\* without an explicit request never makes shouldIntervene act, whatever the
\* event (new message, any reaction, summary due, high-impact claim).
C1_MinimalNeverActs ==
    (Decided /\ OnStoredThread /\ NoExplicitRequest
       /\ CalledThread.interventionLevel = "minimal")
    => ~call.decision.shouldIntervene

C1_Witness ==
    /\ Decided /\ OnStoredThread /\ NoExplicitRequest
    /\ call.env = StorageOk
    /\ CalledThread.interventionLevel = "minimal"
    /\ SummaryDue
    /\ call.ctx.newMessage = Msg(ExampleText)
    /\ call.ctx.reaction = Reaction(VerifyEmoji)
    /\ call.decision = NoAct("Minimal intervention mode")

ExplicitRequestHonoured ==
    /\ call.decision.shouldIntervene
    /\ call.decision.priority = "high"
    /\ call.decision.actionType =
         (IF call.ctx.requestType \in {"undefined", ""}
          THEN "summary" ELSE call.ctx.requestType)

\* C2 as stated: every event context with an explicit request makes
\* shouldIntervene act with priority high and the requested action type
\* (summary by default), for every level and thread state.
C2_ExplicitAlwaysActs ==
    (Decided /\ call.ctx.explicitRequest) => ExplicitRequestHonoured

\* C2 amended: the same, provided the thread id names a stored thread and
\* the thread lookup does not fail.
C2_ExplicitActsOnStoredThread ==
    (Decided /\ call.ctx.explicitRequest /\ OnStoredThread /\ ~call.env.findFails)
    => ExplicitRequestHonoured

C2_Witness ==
    /\ Decided /\ call.ctx.explicitRequest /\ OnStoredThread /\ ~call.env.findFails
    /\ CalledThread.interventionLevel = "minimal"
    /\ call.ctx.requestType = ""
    /\ call.decision = Act("Explicit user request", "summary", "high")

\* the evaluation raises: the lookup fails, the count query fails, or the
\* high-impact check reads the content of a message that has none
InternalError ==
    \/ call.env.findFails
    \/ /\ OnStoredThread /\ NoExplicitRequest
       /\ CalledThread.interventionLevel # "minimal"
       /\ CalledThread.settings.autoSummaryEnabled
       /\ CalledThread.lastSummaryAt # 0
       /\ call.env.countFails
    \/ /\ OnStoredThread /\ NoExplicitRequest /\ StorageSucceeds
       /\ CalledThread.interventionLevel = "active"
       /\ ~SummaryDue
       /\ call.ctx.newMessage.present
       /\ ~call.ctx.newMessage.hasContent

\* C6: shouldIntervene never lets an exception out; an internal error of the
\* evaluation becomes the no-act Decision "Error evaluating policy".
C6_PolicyNeverThrows ==
    Decided =>
        /\ ~call.decision.threw
        /\ InternalError => call.decision = NoAct("Error evaluating policy")

C6_Witness ==
    /\ Decided
    /\ ~call.env.findFails /\ ~call.env.countFails
    /\ InternalError
    /\ call.decision = NoAct("Error evaluating policy")

\* C8: on a non-minimal thread with auto-summary enabled, an event without
\* an explicit request and with messagesSinceLastSummary >= summaryFrequency
\* gets the Decision summary / normal, whatever the event kind.
C8_ThresholdTriggersSummary ==
    (Decided /\ OnStoredThread /\ StorageSucceeds /\ NoExplicitRequest
       /\ CalledThread.interventionLevel # "minimal"
       /\ CalledThread.settings.autoSummaryEnabled
       /\ MessagesSinceLastSummary >= CalledThread.settings.summaryFrequency)
    => /\ call.decision.shouldIntervene
       /\ call.decision.actionType = "summary"
       /\ call.decision.priority = "normal"

\* no prior summary and messageCount = summaryFrequency, on an active
\* thread, for a message that carries a high-impact claim
C8_Witness ==
    /\ Decided /\ OnStoredThread /\ StorageSucceeds /\ NoExplicitRequest
    /\ CalledThread.interventionLevel = "active"
    /\ CalledThread.settings.autoSummaryEnabled
    /\ CalledThread.lastSummaryAt = 0
    /\ CalledThread.messageCount = CalledThread.settings.summaryFrequency
    /\ call.ctx.newMessage = Msg(ExampleText)
    /\ call.decision = Act("Message threshold reached", "summary", "normal")

VerifyDecision ==
    /\ call.decision.shouldIntervene
    /\ call.decision.actionType = "fact_check"
    /\ call.decision.priority = "normal"

\* C9 as stated: a reaction event with the verify emoji gets the Decision
\* fact_check / normal on any thread configuration.
C9_VerifyReactionAlwaysFactChecks ==
    (Decided /\ OnStoredThread /\ StorageSucceeds /\ VerifyReactionEvent)
    => VerifyDecision

\* C9 amended: it does on a thread that is not minimal and on which no
\* automatic summary is due.
C9_VerifyReactionFactChecks ==
    (Decided /\ OnStoredThread /\ StorageSucceeds /\ VerifyReactionEvent
       /\ CalledThread.interventionLevel # "minimal"
       /\ ~SummaryDue)
    => VerifyDecision

C9_Witness ==
    /\ Decided /\ OnStoredThread /\ StorageSucceeds /\ VerifyReactionEvent
    /\ CalledThread.interventionLevel = "balanced"
    /\ CalledThread.settings.autoSummaryEnabled
    /\ CalledThread.lastSummaryAt # 0
    /\ MessagesSinceLastSummary = 1
    /\ call.decision = Act("User requested source verification", "fact_check", "normal")

\* span is the part of text that one alternative of one pattern matches
IsMatchedSpan(text, span) ==
    \E k \in 1..Len(HighImpactPatterns) :
      \E alt \in HighImpactPatterns[k] :
        \E i \in 1..Len(text) :
          /\ i + Len(alt) - 1 <= Len(text)
          /\ \A j \in 1..Len(alt) : text[i + j - 1] \in alt[j]
          /\ span = SubSeq(text, i, i + Len(alt) - 1)

HasHighImpactMatch(text) ==
    \E i, j \in 1..Len(text) : i <= j /\ IsMatchedSpan(text, SubSeq(text, i, j))

HighImpactEvent ==
    /\ NoExplicitRequest
    /\ call.ctx.newMessage.present
    /\ call.ctx.newMessage.hasContent
    /\ HasHighImpactMatch(call.ctx.newMessage.content)

----------------------------------------------------------------------------
(* Properties of the orchestrator, over Spec. *)

ProcessedEvent == outcome.op = "processNewMessage"
PolicyFailed == ProcessedEvent /\ outcome.reason = "Error evaluating policy"
PipelineFailed == ProcessedEvent /\ outcome.failed
ErrorReported == outcome.result = "returned" /\ ~outcome.intervened /\ outcome.hasError

\* C3, as the claim states it: when the policy or a dispatched pipeline step
\* fails while processNewMessage handles an event, the call returns a report
\* with intervened = false and an error field.
C3_FailureYieldsErrorReport ==
    (PolicyFailed \/ PipelineFailed) => ErrorReported

\* C3, as the code has it: processNewMessage never raises; a failed pipeline
\* step yields a report with intervened = false and an error field; a failed
\* policy evaluation yields a report with intervened = false, the reason
\* "Error evaluating policy" and no error field.
C3_NeverRaisesReportsPipelineError ==
    ProcessedEvent =>
        /\ outcome.result = "returned"
        /\ PipelineFailed => ErrorReported
        /\ PolicyFailed => ~outcome.intervened /\ ~outcome.hasError

\* a summary pipeline that failed after its message was saved, reported as an error
C3_Witness ==
    /\ PipelineFailed
    /\ ErrorReported
    /\ \E i \in DOMAIN messages : messages[i].messageType = "llm_summary"

ExplicitRequestFailed == outcome.op = "handleExplicitRequest" /\ outcome.failed

FailedIntervention ==
    /\ outcome.op \in {"processNewMessage", "handleExplicitRequest"}
    /\ outcome.failed

\* C5: an intervention that fails at any step leaves no facilitator message
\* persisted and leaves the thread's conversationState and lastSummaryAt as
\* they were.
C5_FailedInterventionLeavesNoTrace ==
    [][FailedIntervention' => messages' = messages /\ threads' = threads]_vars

----------------------------------------------------------------------------
(* Properties of the message count, over SpecMessages. *)

SummarySucceeded ==
    \/ outcome.op = "POST summarize" /\ outcome.status = 200
    \/ /\ outcome.op \in {"processNewMessage", "handleExplicitRequest"}
       /\ outcome.intervened
       /\ outcome.actionType = "summary"

\* a step in which a summary generation succeeded
SummaryStep == SummarySucceeded' /\ Len(messages') = Len(messages) + 1

\* a step that is no summary generation: lastSummaryAt is left alone
NoSummaryStep == threads'[1].lastSummaryAt = threads[1].lastSummaryAt

C11_CountSkipsDeletedMessages ==
    MessagesSinceLastSummary =
        IF threads[1].lastSummaryAt = 0
        THEN threads[1].messageCount
        ELSE LiveUserMessagesAfter(1, messages, threads[1].lastSummaryAt)

----------------------------------------------------------------------------
(* Properties of message posting, over SpecPosting. *)

\* storage works and the document is valid
PostOk == [findFails |-> FALSE, save |-> "ok", hookFails |-> FALSE]

\* C12: in every state of the backends, and whether or not an intervention
\* is under way or has just failed, posting a user message to a stored, open
\* thread answers 201 and stores the message.
C12_PostSucceedsWhateverFacilitationDoes ==
    \A tid \in DOMAIN threads :
        ~threads[tid].isClosed =>
            LET e == postMessageRoute(tid, PostOk, threads, messages, claims, now)
            IN  /\ e.outcome.status = 201
                /\ e.messages = Append(messages, NewMessage(tid, "user", now, "none"))
                /\ e.claims = claims

\* a message posted with success while a summarization is awaiting a model
\* backend that is unreachable
C12_Witness ==
    /\ outcome = Emitting(Http("POST message", 201), "new_message")
    /\ pending # <<>>
    /\ Head(pending).decision.actionType = "summary"
    /\ backends = [model |-> "unreachable", search |-> "down"]
    /\ messages # <<>>
    /\ messages[Len(messages)].messageType = "user"

----------------------------------------------------------------------------
(* Properties of the services, over the calls of SpecServices. *)

Called(fn) == call.made /\ call.fn = fn
AskedSet(asked) == { asked[i] : i \in DOMAIN asked }

\* C13: searchWeb asks the paid backend first exactly when its key is
\* configured, asks the free backend exactly when the key is absent or the
\* paid request failed, never raises, and returns the empty list when every
\* backend it asked failed.
C13_SearchFallbackChain ==
    Called("searchWeb") =>
        LET r == call.result
            configured == KeyConfigured(call.args.key)
            paidFailed == call.args.serp.fails
        IN  /\ ~r.threw
            /\ configured <=> (r.asked # <<>> /\ r.asked[1] = "serpapi")
            /\ configured <=> "serpapi" \in AskedSet(r.asked)
            /\ (~configured \/ paidFailed) <=> "duckduckgo" \in AskedSet(r.asked)
            /\ ((~configured \/ paidFailed) /\ call.args.ddg.fails) => r.results = <<>>
            /\ (configured /\ ~paidFailed)
                 => Len(r.results) = call.args.serp.organic

\* the key is configured and both requests fail
C13_Witness ==
    /\ Called("searchWeb")
    /\ call.args.key = "key"
    /\ call.args.serp.fails
    /\ call.args.ddg.fails
    /\ call.result = [threw |-> FALSE, results |-> <<>>,
                      asked |-> <<"serpapi", "duckduckgo">>]

JsonRequested == call.args.format \in {"undefined", "json"}
Answered == call.args.http.kind = "ok"
Unparsable == call.args.http.body.kind \in UnparsableKinds

\* C14: with format json (the default), a completion that returns carries the
\* parsed value of the body and never the unparsed text; a body that does not
\* parse ends the call with the invalid-JSON error, and that is the only
\* error an answered request ends with.
C14_JsonCompletionParsedOrInvalid ==
    (Called("generateCompletion") /\ JsonRequested) =>
        LET r == call.result
        IN  /\ ~r.threw => /\ ~r.response.raw
                           /\ r.response = JSONParse(call.args.http.body).value
                           /\ call.args.http.body.kind \in ParsableKinds
            /\ (Answered /\ Unparsable) => (r.threw /\ r.error = "invalid JSON")
            /\ (Answered /\ r.threw) => r.error = "invalid JSON"

\* json requested, the backend answers with prose
C14_Witness ==
    /\ Called("generateCompletion")
    /\ call.args.format = "json"
    /\ Answered
    /\ call.args.http.body.kind = "prose"
    /\ call.result.threw
    /\ call.result.error = "invalid JSON"

\* C15: a refused connection is reported as service not running, a 404 as
\* model not found, an unparsable body as invalid JSON, and each of the three
\* kinds is reported for its own cause only; any other failure keeps its own
\* message.
C15_FailureKindsDistinguished ==
    Called("generateCompletion") =>
        LET r == call.result
            kind == call.args.http.kind
        IN  /\ (r.threw /\ r.error = "service not running") <=> kind = "ECONNREFUSED"
            /\ (r.threw /\ r.error = "model not found") <=> kind = "status404"
            /\ (r.threw /\ r.error = "invalid JSON")
                 <=> (Answered /\ JsonRequested /\ Unparsable)
            /\ kind \in {"ECONNABORTED", "status500"} => (r.threw /\ r.error = kind)

\* the backend answers 404
C15_Witness ==
    /\ Called("generateCompletion")
    /\ call.args.http.kind = "status404"
    /\ call.result.threw
    /\ call.result.error = "model not found"

NoRepeat(seq) == \A i, j \in DOMAIN seq : seq[i] = seq[j] => i = j
ModelFailed == generateCompletion("json", call.args.http).threw

\* C16: nothing is retried. One fact-check or summary makes at most one model
\* call, one search sends at most one request to each search backend, and a
\* model call that times out or fails ends the fact-check or summary with
\* that same error.
C16_NoAutomaticRetry ==
    /\ Called("searchWeb") => NoRepeat(call.result.asked)
    /\ Called("factCheckClaim") =>
         /\ call.result.modelCalls <= 1
         /\ NoRepeat(call.result.asked)
         /\ ModelFailed =>
              /\ call.result.threw
              /\ call.result.error = generateCompletion("json", call.args.http).error
    /\ Called("generateSummary") =>
         /\ call.result.modelCalls <= 1
         /\ (ModelFailed /\ call.result.modelCalls = 1) =>
              /\ call.result.threw
              /\ call.result.error = generateCompletion("json", call.args.http).error

\* the model call of a fact-check times out after both search backends were asked
C16_Witness ==
    /\ Called("factCheckClaim")
    /\ call.args.http.kind = "ECONNABORTED"
    /\ call.result.threw
    /\ call.result.error = "ECONNABORTED"
    /\ call.result.modelCalls = 1
    /\ call.result.asked = <<"serpapi", "duckduckgo">>

VerdictReturned == Called("factCheckClaim") /\ ~call.result.threw
VerdictStatusValues == {"verified", "unverified", "disputed", "uncertain"}

\* C17: a fact-check that ran with no search results returns a verdict whose
\* status is unverified or uncertain, never verified, whatever the model
\* answers.  (Violated: the status is the model's answer, copied.)
C17_NoEvidenceNeverVerified ==
    (VerdictReturned /\ call.result.searchResultsFound = 0)
        => call.result.status \in {"unverified", "uncertain"}

\* C18: the confidence of every returned verdict lies in [0,1] (0..100
\* hundredths), for every value the model sends in its confidence field.
\* (Violated: the confidence is the model's answer, copied.)
C18_ConfidenceWithinUnitInterval ==
    (VerdictReturned /\ call.result.hasConfidence)
        => (call.result.confidence >= 0 /\ call.result.confidence <= 100)

\* C19: the status of every returned verdict is one of verified, unverified,
\* disputed, uncertain; an answer whose status is missing or another value
\* yields no verdict.  (Violated: the status is the model's answer, copied.)
C19_StatusIsOneOfFour ==
    VerdictReturned => call.result.status \in VerdictStatusValues

\* C20: the evidence of a verdict holds at most 5 items however many results
\* the search returned, and its items are built, in order, from the first
\* results of the one search whose first results were shown to the model.
C20_EvidenceCappedFromShownResults ==
    VerdictReturned =>
        LET r == call.result
            found == searchWeb(call.args.key, call.args.serp, call.args.ddg,
                               DefaultLimit).results
        IN  /\ Len(r.evidence) <= 5
            /\ r.searchResultsFound = Len(found)
            /\ Len(r.evidence) = IF Len(found) < 5 THEN Len(found) ELSE 5
            /\ Len(r.shown) = Len(r.evidence)
            /\ \A i \in DOMAIN r.evidence :
                 /\ r.evidence[i].result = found[i]
                 /\ r.evidence[i].result = r.shown[i]

\* the search returns more results than the cap
C20_Witness ==
    /\ VerdictReturned
    /\ call.result.searchResultsFound > 5
    /\ Len(call.result.evidence) = 5
    /\ Len(call.result.shown) = 5

\* C21: each evidence item of a verdict carries the credibility score that
\* getSourceCredibility gives to the url of its search result.  (Violated:
\* every item carries the same fixed score.)
C21_EvidenceScoredBySource ==
    VerdictReturned =>
        \A i \in DOMAIN call.result.evidence :
            call.result.evidence[i].credibilityScore
                = getSourceCredibility(call.result.evidence[i].result.url)

\* the domains the two lists name in full
ListedDomains == { d \in highCredibility \cup mediumCredibility : Len(d) > 1 }
OnAllowlist(domain) ==
    \E d \in ListedDomains : domain = d \/ EndsWith(domain, <<".">> \o d)
GovOrEdu(domain) == EndsWith(domain, <<".", "gov">>) \/ EndsWith(domain, <<".", "edu">>)

\* C22: the credibility score is 0.9 for who.int, 0.85 for a .gov or .edu
\* domain that is on no allowlist, 0.5 for an unrecognized domain and for a
\* url that does not parse, and always within [0,1] (scores in hundredths).
\* (Violated: a domain that has "gov" or "edu" anywhere in it scores 0.9.)
C22_CredibilityByDomain ==
    Called("getSourceCredibility") =>
        LET url == call.args.url
            domain == Hostname(url)
            score == call.result.score
        IN  /\ score >= 0 /\ score <= 100
            /\ score = getSourceCredibility(url)
            /\ ~url.parsable => score = 50
            /\ url.parsable =>
                 /\ domain = <<"who", ".", "int">> => score = 90
                 /\ (GovOrEdu(domain) /\ ~OnAllowlist(domain)) => score = 85
                 /\ (~GovOrEdu(domain) /\ ~OnAllowlist(domain)) => score = 50

----------------------------------------------------------------------------
(* Properties of what an intervention leaves behind. *)

OrchestratorFactChecked ==
    /\ outcome.op \in {"processNewMessage", "handleExplicitRequest"}
    /\ outcome.result = "returned"
    /\ outcome.intervened
    /\ outcome.actionType = "fact_check"

\* C23: once the orchestrator has completed a fact-check, automatic or
\* explicitly requested, the verdict is stored as a claim record.
\* (Violated: performFactCheck saves the message only.)
C23_OrchestratorFactCheckStoresClaim ==
    OrchestratorFactChecked => Len(claims) > 0

OrchestratorIntervened ==
    /\ outcome.op \in {"processNewMessage", "handleExplicitRequest"}
    /\ outcome.result = "returned"
    /\ outcome.intervened

\* C24: an intervention the orchestrator has carried out (summary, fact-check
\* or observation) has emitted a notification event to the thread's room
\* once its message was stored.  (Violated: the orchestrator emits nothing.)
C24_OrchestratorInterventionNotifies ==
    OrchestratorIntervened => outcome.emitted # "none"

----------------------------------------------------------------------------
(* Properties of summarizations, over the steps of SpecSummaries. *)

\* summarization i takes its last step and ends successfully
FinishesSummary(i) ==
    /\ StepAfter(pending[i].path, pending[i].pc) = "done"
    /\ pending' = Remove(pending, i)

\* C25: when a summarization of the thread has succeeded, on any of the
\* three paths, the previous summary a following summarization puts into its
\* prompt is the topic statement of that summary; "None yet" is used only
\* while no summary has succeeded.  (Violated: the route leaves activeTopic
\* as it was.)
C25_NextSummaryGetsPriorTopic ==
    [][\A i \in DOMAIN pending :
          FinishesSummary(i) => PreviousSummary(threads'[1]) = pending[i].topic]_vars

\* C27: the conversation state changes only by a summarization whose model
\* call has returned, and when two summarizations that ran concurrently have
\* both finished (two llm_summary messages) the conversation state comes
\* from one of the two summaries in all its fields.  (Violated: with the
\* route as a writer activeTopic and the lists come from different
\* summaries, or activeTopic from none.)
C27_ConcurrentSummariesLastWriterWins ==
    [][/\ threads'[1].conversationState # threads[1].conversationState
            => \E i \in DOMAIN pending :
                  pending[i].pc = "saveThread" /\ pending[i].topic \in SummaryTopics
       /\ ( /\ Len(pending) = 1
            /\ pending[1].concurrent
            /\ FinishesSummary(1)
            /\ Cardinality({ k \in DOMAIN messages' :
                               messages'[k].messageType = "llm_summary" }) = 2 )
            => /\ threads'[1].conversationState.activeTopic \in SummaryTopics
               /\ threads'[1].conversationState.keyPoints
                    = threads'[1].conversationState.activeTopic]_vars

----------------------------------------------------------------------------
(* Properties of shouldGenerateSummary, over the thread states of SpecMessages. *)

\* the count-threshold rule of shouldIntervene
CountThresholdRule(tid) ==
    /\ threads[tid].settings.autoSummaryEnabled
    /\ getMessagesSinceLastSummary(tid, threads[tid], messages)
         >= threads[tid].settings.summaryFrequency

\* C26: in every reachable thread state, also after summaries,
\* shouldGenerateSummary(thread) is true exactly when auto-summary is enabled
\* and the messages since the last summary have reached the frequency.
\* (Violated after a summary: shouldGenerateSummary compares the total count.)
C26_ShouldGenerateSummaryMirrorsPolicy ==
    \A tid \in DOMAIN threads :
        shouldGenerateSummary(threads[tid]) <=> CountThresholdRule(tid)

----------------------------------------------------------------------------
(* Properties of the Decisions, over the calls of SpecPolicy. *)

DecisionActions == {"summary", "fact_check", "observation"}

\* the request types handleExplicitRequest builds a Decision for and uses it
HandledRequestKinds == {"summarize", "fact-check", "resolve"}

WellFormedAct(decision) ==
    /\ decision.reason # ""
    /\ decision.actionType \in DecisionActions

\* C28: every Decision that says to act, returned by shouldIntervene or
\* built by handleExplicitRequest, has a non-empty reason and an action type
\* that is summary, fact_check or observation.  (Violated: an explicit
\* request's type is copied into the Decision.)
C28_ActingDecisionWellFormed ==
    /\ (Decided /\ ~call.decision.threw /\ call.decision.shouldIntervene)
         => WellFormedAct(call.decision)
    /\ Decided =>
         \A requestType \in HandledRequestKinds :
             WellFormedAct(ExplicitDecision(requestType))

----------------------------------------------------------------------------
(* Properties of the resolve requests, over SpecRoutes. *)

NotImplemented == "Resolution generation not yet implemented"

ResolveAnswered == outcome.reason = NotImplemented

\* C29: a resolve request on a stored thread is answered with the labelled
\* not-implemented outcome, by the orchestrator with intervened false and by
\* the route in its resolution, and the request has no effect: no message
\* and no claim is stored, the thread is unchanged, no event is emitted and
\* no pipeline (model or search call) is run.
C29_ResolveIsLabelledStub ==
    [][/\ (outcome'.op = "POST resolve" /\ outcome'.status = 200) => ResolveAnswered'
       /\ ResolveAnswered' =>
            /\ UNCHANGED <<threads, messages, claims, pending, backends>>
            /\ ~outcome'.intervened
            /\ ~outcome'.failed
            /\ outcome'.actionType = "undefined"
            /\ outcome'.emitted = "none"
            /\ outcome'.op \in {"POST resolve", "handleExplicitRequest"}]_vars

\* the orchestrator answers a resolve request on a thread that has messages
C29_Witness ==
    /\ outcome.op = "handleExplicitRequest"
    /\ ResolveAnswered
    /\ ~outcome.intervened
    /\ messages # <<>>

----------------------------------------------------------------------------
(* Properties of the claim detector, over the calls of SpecDetector. *)

Detected == Called("detectClaimsInText")

\* the candidates that are the first with their text, ignoring case
FirstOccurrences(candidates) ==
    { m \in DOMAIN candidates :
        \A n \in 1..(m - 1) :
            LowerText(candidates[n].claimText) # LowerText(candidates[m].claimText) }

----------------------------------------------------------------------------
(* The length filter of the claim detector, over the calls of SpecDetector. *)

LengthFilteredTypes == {"health", "legal", "financial"}

\* the matches of the pattern families that carry a length test
FilteredFamilyMatches(text) ==
    UNION { { MatchAll(text, ClaimPatterns[k].starts, 1)[m] :
                m \in DOMAIN MatchAll(text, ClaimPatterns[k].starts, 1) } :
            k \in { n \in DOMAIN ClaimPatterns : ClaimPatterns[n].longerThan > 0 } }

\* C31 (as stated): every claim the detector returns, of whichever pattern
\* family, has a text longer than 20 characters.
C31_EveryFamilyFiltersShortMatches ==
    Detected =>
        \A i \in DOMAIN call.result.claims :
            TextChars(call.result.claims[i].claimText) > 20

\* C31 (amended): every health, legal or financial claim the detector
\* returns has a text longer than 20 characters, and a match of those
\* families of 20 characters or fewer gives no claim; statistical and
\* definitive (factual) claims are returned whatever their length.
C31_KeywordFamiliesFilterShortMatches ==
    Detected =>
        /\ \A i \in DOMAIN call.result.claims :
             call.result.claims[i].claimType \in LengthFilteredTypes
                => TextChars(call.result.claims[i].claimText) > 20
        /\ \A match \in FilteredFamilyMatches(call.args.text) :
             TextChars(match) <= 20
                => \A i \in DOMAIN call.result.claims :
                       call.result.claims[i].claimText # match
                       \/ call.result.claims[i].claimType \notin LengthFilteredTypes
        /\ \A k \in { n \in DOMAIN ClaimPatterns : ClaimPatterns[n].longerThan = 0 } :
             \A m \in DOMAIN MatchAll(call.args.text, ClaimPatterns[k].starts, 1) :
                \E i \in DOMAIN call.result.claims :
                    LowerText(call.result.claims[i].claimText)
                      = LowerText(MatchAll(call.args.text, ClaimPatterns[k].starts, 1)[m])

\* a text with a short health match that is dropped and a short definitive
\* match that is returned
C31_Witness ==
    /\ Detected
    /\ \E match \in FilteredFamilyMatches(call.args.text) : TextChars(match) <= 20
    /\ \E i \in DOMAIN call.result.claims :
         /\ call.result.claims[i].claimType = "factual"
         /\ TextChars(call.result.claims[i].claimText) <= 20

----------------------------------------------------------------------------
(* SpecTranscript: one call of summaryService.generateSummary on a bounded   *)
(* collection of stored messages.  The transcript is the sequence of the     *)
(* positions in messages of the documents that are formatted into the prompt.*)

MaxStored == 3
MaxLimit == 2
DefaultMessageLimit == 20

MessageLimits == (1..MaxLimit) \cup {DefaultMessageLimit}

\* the collection as it can be stored: createdAt never decreases along the
\* order of insertion
StoredMessage(tid, type, createdAt, deleted) ==
    [NewMessage(tid, type, createdAt, "none") EXCEPT !.isDeleted = deleted]

StoredCollections ==
    { msgs \in UNION { [1..n -> { StoredMessage(t, ty, at, d) :
                                    t \in ThreadIds, ty \in {"user", "llm_summary"},
                                    at \in 1..MaxTime, d \in BOOLEAN }] :
                       n \in 0..MaxStored } :
        \A i, j \in DOMAIN msgs : i < j => msgs[i].createdAt <= msgs[j].createdAt }

\* the filter without the messageType condition
MatchingAnyType(msgs, tid) ==
    { i \in DOMAIN msgs : msgs[i].threadId = tid /\ ~msgs[i].isDeleted }

\* Message.find({ threadId, isDeleted: false, messageType: 'user' })
Matching(msgs, tid) ==
    { i \in DOMAIN msgs :
        /\ msgs[i].threadId = tid
        /\ msgs[i].isDeleted = FALSE
        /\ msgs[i].messageType = "user" }

\* .sort({ createdAt: -1 }): the orders the database may return; documents
\* with the same createdAt come in any order
SortedRecentFirst(msgs, found) ==
    { order \in [1..Cardinality(found) -> found] :
        /\ \A i, j \in DOMAIN order : order[i] = order[j] => i = j
        /\ \A i, j \in DOMAIN order :
             i < j => msgs[order[i]].createdAt >= msgs[order[j]].createdAt }

\* messages.reverse()
Reverse(seq) == [i \in 1..Len(seq) |-> seq[Len(seq) + 1 - i]]

\* generateSummary with the messages it formats: sorted is the order the
\* query returned before .limit(messageLimit)
generateSummaryOf(tid, thrs, sorted, messageLimit, queryFails, http) ==
    LET result == generateSummary(tid, thrs, queryFails, http)
        transcript == Reverse(Slice(sorted, messageLimit))
    IN  [threw |-> result.threw, error |-> result.error,
         prompted |-> result.modelCalls = 1,
         transcript |-> IF result.modelCalls = 1 THEN transcript ELSE <<>>,
         messagesAnalyzed |-> IF result.threw THEN 0 ELSE Len(transcript)]

TranscriptHttp ==
    { [kind |-> "ok", body |-> Body("object", "undefined", FALSE, 0)],
      [kind |-> "ECONNREFUSED", body |-> NoBody] }

\* an id no thread has
MissingThread == CHOOSE t \in 1..(Cardinality(ThreadIds) + 1) : t \notin ThreadIds

InitTranscript ==
    /\ threads = [t \in ThreadIds |-> NewThread("balanced", TRUE, MinFrequency)]
    /\ messages \in StoredCollections
    /\ claims = <<>>
    /\ now = MaxTime
    /\ outcome = NoOutcome
    /\ pending = <<>>
    /\ backends = BackendsUp
    /\ \E tid \in {1, MissingThread}, limit \in MessageLimits :
         \E q \in BOOLEAN, h \in TranscriptHttp :
           /\ (tid = MissingThread => ~q /\ h.kind = "ok")
           /\ (q => h.kind = "ok")
           /\ call = [made |-> FALSE, fn |-> "generateSummary",
                      args |-> [NoInput EXCEPT !.tid = tid, !.limit = limit,
                                               !.queryFails = q, !.http = h],
                      result |-> NoInput]

TranscriptCall ==
    /\ ~call.made
    /\ call.fn = "generateSummary"
    /\ \E sorted \in SortedRecentFirst(messages, Matching(messages, call.args.tid)) :
         call' = Returned(generateSummaryOf(call.args.tid, threads, sorted,
                                            call.args.limit, call.args.queryFails,
                                            call.args.http))
    /\ UNCHANGED <<threads, messages, claims, now, outcome, pending, backends>>

NextTranscript == TranscriptCall

SpecTranscript == InitTranscript /\ [][NextTranscript]_vars

----------------------------------------------------------------------------
(* Properties of the summary transcript, over the calls of SpecTranscript. *)

Prompted == Called("generateSummary") /\ call.result.prompted

\* the non-deleted user messages of the summarized thread
UserMessagesOf(tid) ==
    { i \in DOMAIN messages :
        messages[i].threadId = tid /\ messages[i].messageType = "user"
        /\ ~messages[i].isDeleted }

\* C32: the transcript given to the model by generateSummary(threadId,
\* messageLimit) holds exactly min(messageLimit, n) of the thread's n
\* non-deleted user messages, none twice, no message left out is newer than
\* one taken, and they stand in ascending order of creation; deleted
\* messages, facilitator messages and messages of other threads are absent.
C32_TranscriptIsRecentUserMessages ==
    Prompted =>
        LET t == call.result.transcript
            eligible == UserMessagesOf(call.args.tid)
            n == Cardinality(eligible)
        IN  /\ Len(t) = IF call.args.limit < n THEN call.args.limit ELSE n
            /\ \A i \in DOMAIN t : t[i] \in eligible
            /\ \A i, j \in DOMAIN t : t[i] = t[j] => i = j
            /\ \A i, j \in DOMAIN t :
                 i < j => messages[t[i]].createdAt <= messages[t[j]].createdAt
            /\ \A e \in eligible \ { t[i] : i \in DOMAIN t } :
                 \A i \in DOMAIN t : messages[e].createdAt <= messages[t[i]].createdAt

\* more user messages than the limit, of different ages, next to a deleted
\* or facilitator message of the same thread
C32_Witness ==
    /\ Prompted
    /\ Cardinality(UserMessagesOf(call.args.tid)) > call.args.limit
    /\ Len(call.result.transcript) = call.args.limit
    /\ \E i, j \in UserMessagesOf(call.args.tid) :
         messages[i].createdAt < messages[j].createdAt
    /\ \E i \in DOMAIN messages :
         /\ messages[i].threadId = call.args.tid
         /\ i \notin UserMessagesOf(call.args.tid)

----------------------------------------------------------------------------
(* Observations, over the orchestrator of Spec. *)

\* the events the policy is asked about without an explicit request: a new
\* message, a reaction, or neither
UnrequestedContexts ==
    { Ctx(FALSE, "undefined", m, r) :
        m \in ProcessedMessages \cup {NoMessage},
        r \in {NoReaction} \cup { Reaction(e) : e \in Emojis } }

ObservationPersisted ==
    \E i \in DOMAIN messages' :
        /\ i \notin DOMAIN messages
        /\ messages'[i].messageType = "llm_intervention"

\* C33: in every reachable state the policy answers no event without an
\* explicit request with a Decision whose actionType is observation, and
\* no step in which processNewMessage handles a message stores an
\* llm_intervention message.
C33_NoObservationWithoutRequest ==
    /\ [](\A tid \in ThreadIds, ctx \in UnrequestedContexts, env \in StorageEnvs :
            shouldIntervene(tid, ctx, env, threads, messages).actionType
              # "observation")
    /\ [][outcome'.op = "processNewMessage" => ~ObservationPersisted]_vars

\* a message handled on a thread that is not minimal and that passed the
\* threshold and claim rules: the contradiction step was asked and the
\* orchestrator did not intervene
C33_Witness ==
    /\ outcome = Report("processNewMessage", FALSE, "No intervention triggers met",
                        "undefined")
    /\ threads[1].interventionLevel # "minimal"
    /\ \A i \in DOMAIN messages : messages[i].messageType # "llm_intervention"

----------------------------------------------------------------------------
(* SpecSettings: shouldIntervene on threads whose owner has set or cleared   *)
(* settings.autoFactCheckEnabled (PUT /api/threads/:id accepts settings).    *)

SettingsThreads(msgs) ==
    { [NewThread(l, a, MinFrequency) EXCEPT !.messageCount = Len(msgs),
                                            !.settings.autoFactCheckEnabled = fc] :
        l \in Levels, a \in BOOLEAN, fc \in BOOLEAN }

InitSettings ==
    /\ now = MaxTime
    /\ claims = <<>>
    /\ outcome = NoOutcome
    /\ pending = <<>>
    /\ backends = BackendsUp
    /\ \E ms \in PolicyMessages :
         /\ messages = ms
         /\ \E th \in SettingsThreads(ms) :
              /\ threads = (1 :> th)
              /\ \E c \in EventContexts :
                   call = [NoCall EXCEPT !.ctx = c]

SpecSettings == InitSettings /\ [][NextPolicy]_vars

AutoFactCheckDisabled ==
    /\ call.made
    /\ ~call.ctx.explicitRequest
    /\ ~threads[call.tid].settings.autoFactCheckEnabled

\* C34: on a thread whose settings.autoFactCheckEnabled is false, the
\* Decision for an event without an explicit request (a new message, a
\* reaction) never has actionType fact_check.
C34_DisabledAutoFactCheckNeverFactChecks ==
    AutoFactCheckDisabled => call.decision.actionType # "fact_check"

----------------------------------------------------------------------------
(* SpecCounting: the message routes and the orchestrator on one thread,     *)
(* with every outcome of message.save(): the counter update of the pre-save *)
(* hook can fail (the hook catches and logs), and the insert that follows   *)
(* the hook can fail.                                                       *)

CountingPostEnvs ==
    PostEnvs \cup { [findFails |-> FALSE, save |-> "ok", hookFails |-> TRUE],
                    [findFails |-> FALSE, save |-> "insert", hookFails |-> FALSE] }

\* the bound of the model on the counter, which failed inserts raise without
\* filling the collection
RoomForCount == \A tid \in DOMAIN threads : threads[tid].messageCount < MaxMsgs

PostMessageAnySave ==
    /\ RoomForMessage
    /\ RoomForCount
    /\ \E tid \in ThreadIds, env \in CountingPostEnvs :
         LET e == postMessageRoute(tid, env, threads, messages, claims, now)
         IN  /\ threads' = e.threads
             /\ messages' = e.messages
             /\ outcome' = e.outcome
    /\ UNCHANGED <<claims, now, call, pending, backends>>

NextCounting ==
    \/ Tick
    \/ PostMessageAnySave
    \/ EditMessage
    \/ DeleteMessage
    \/ ToggleReaction
    \/ ProcessNewMessage

SpecCounting == InitMessages /\ [][NextCounting]_vars

\* the user messages ever created in the thread: none is ever removed
UserMessagesCreated(tid) ==
    Cardinality({ i \in DOMAIN messages :
                    messages[i].threadId = tid /\ messages[i].messageType = "user" })

FacilitatorKinds == {"llm_summary", "llm_fact_check", "llm_intervention"}

FacilitatorMessagePosted ==
    /\ Len(messages') = Len(messages) + 1
    /\ messages'[Len(messages')].messageType \in FacilitatorKinds

\* C35: in every reachable state the thread's messageCount is the number of
\* user messages ever created in it, and a step that posts a facilitator
\* message increases neither messageCount nor the number of messages since
\* the last summary.
C35_MessageCountIsUserMessages ==
    /\ [](threads[1].messageCount = UserMessagesCreated(1))
    /\ [][FacilitatorMessagePosted =>
            /\ threads'[1].messageCount = threads[1].messageCount
            /\ getMessagesSinceLastSummary(1, threads'[1], messages')
                 <= getMessagesSinceLastSummary(1, threads[1], messages)]_vars

----------------------------------------------------------------------------
(* The recorded trigger of facilitator messages, over the orchestrator of   *)
(* Spec.                                                                    *)

\* the facilitator messages a step stores
PostedFacilitatorMessages ==
    { i \in DOMAIN messages' :
        i \notin DOMAIN messages /\ messages'[i].messageType \in FacilitatorKinds }

\* C36: a facilitator message stored while processNewMessage handles a new
\* message (the policy acted on its own: threshold, high-impact claim) is
\* recorded with triggerType automatic, and a facilitator message recorded
\* with triggerType explicit_request is stored by handleExplicitRequest.
C36_TriggerTypeTellsOrigin ==
    [][\A i \in PostedFacilitatorMessages :
          /\ outcome'.op = "processNewMessage"
                => messages'[i].triggerType = "automatic"
          /\ messages'[i].triggerType = "explicit_request"
                => outcome'.op = "handleExplicitRequest"]_vars

----------------------------------------------------------------------------
(* SpecRetry: messages arrive and processNewMessage handles them, with every *)
(* failure of the summary and fact-check pipelines.  The collection keeps    *)
(* room for the message of one successful summary, so that the bound of the  *)
(* model never stands in the way of the attempt that succeeds.               *)

MaxRetryMsgs == 4

RoomToRetry == Len(messages) < MaxRetryMsgs - 1

PostMessageArrives ==
    /\ RoomToRetry
    /\ \E tid \in ThreadIds, env \in PostEnvs :
         LET e == postMessageRoute(tid, env, threads, messages, claims, now)
         IN  /\ threads' = e.threads
             /\ messages' = e.messages
             /\ outcome' = e.outcome
    /\ UNCHANGED <<claims, now, call, pending, backends>>

\* the summary was generated, stored and applied to the thread
PostsSummary(e) ==
    e.outcome = Report("processNewMessage", TRUE, "", "summary")

NewMessageEvent ==
    /\ Len(messages) < MaxRetryMsgs
    /\ \E tid \in ThreadIds, m \in ProcessedMessages, penv \in StorageEnvs :
         LET d == shouldIntervene(tid, Ctx(FALSE, "undefined", m, NoReaction),
                                  penv, threads, messages)
         IN  \E senv \in IF d.actionType = "summary"
                         THEN SummaryEnvs ELSE {DefaultSummaryEnv} :
               \E fenv \in IF d.actionType = "fact_check"
                           THEN FactCheckEnvs ELSE {DefaultFactCheckEnv} :
                 LET e == processNewMessage(tid, d, senv, fenv, threads, messages, now)
                 IN  /\ PostsSummary(e) \/ e.messages = messages \/ RoomToRetry
                     /\ Apply(e)
    /\ UNCHANGED <<claims, now, call, pending, backends>>

\* the new-message event on a thread whose summary is due (lines 41-53 give
\* the threshold Decision) in which every step of the pipeline succeeds
SummaryPosted ==
    /\ Len(messages) < MaxRetryMsgs
    /\ threads[1].interventionLevel # "minimal"
    /\ threads[1].settings.autoSummaryEnabled
    /\ ThresholdReached(getMessagesSinceLastSummary(1, threads[1], messages),
                        threads[1].settings.summaryFrequency)
    /\ Apply(processNewMessage(1, Act("Message threshold reached", "summary", "normal"),
                               DefaultSummaryEnv, DefaultFactCheckEnv,
                               threads, messages, now))
    /\ UNCHANGED <<claims, now, call, pending, backends>>

NextRetry ==
    \/ Tick
    \/ PostMessageArrives
    \/ NewMessageEvent

\* messages keep arriving and the pipeline eventually succeeds: a successful
\* summarization that stays possible is eventually performed
SpecRetry == Init /\ [][NextRetry]_vars /\ WF_vars(SummaryPosted)

----------------------------------------------------------------------------
(* Retrying summaries, over SpecRetry. *)

\* the threshold rule of the policy fires for the thread
AutoSummaryDue ==
    /\ threads[1].interventionLevel # "minimal"
    /\ threads[1].settings.autoSummaryEnabled
    /\ ThresholdReached(getMessagesSinceLastSummary(1, threads[1], messages),
                        threads[1].settings.summaryFrequency)

\* processNewMessage reports the failure of a dispatched pipeline
AttemptFailed == outcome'.op = "processNewMessage" /\ outcome'.hasError

SummaryPostedAndReset ==
    /\ outcome = Report("processNewMessage", TRUE, "", "summary")
    /\ messages[Len(messages)].messageType = "llm_summary"
    /\ threads[1].lastSummaryAt = now
    /\ getMessagesSinceLastSummary(1, threads[1], messages) = 0
    /\ ~AutoSummaryDue

\* C37: when a summary is due on a thread that is not minimal, a failed
\* summarization leaves lastSummaryAt and the count as they were and the
\* thread due; while the thread is due every new-message event gets the
\* summary Decision; and, messages arriving and the pipeline eventually
\* succeeding, a summary is eventually posted with the count reset to 0.
C37_DueSummaryIsRetried ==
    /\ [][(AutoSummaryDue /\ AttemptFailed) =>
            /\ threads'[1].lastSummaryAt = threads[1].lastSummaryAt
            /\ getMessagesSinceLastSummary(1, threads'[1], messages')
                 = getMessagesSinceLastSummary(1, threads[1], messages)
            /\ AutoSummaryDue']_vars
    /\ [](AutoSummaryDue =>
            \A m \in ProcessedMessages :
                shouldIntervene(1, Ctx(FALSE, "undefined", m, NoReaction), StorageOk,
                                threads, messages)
                  = Act("Message threshold reached", "summary", "normal"))
    /\ (AutoSummaryDue ~> SummaryPostedAndReset)

\* a summary posted after an attempt that stored its message and then failed
C37_Witness ==
    /\ SummaryPostedAndReset
    /\ \E i \in 1..(Len(messages) - 1) : messages[i].messageType = "llm_summary"

----------------------------------------------------------------------------
(* SpecRequests: explicit requests through handleExplicitRequest and through *)
(* POST /threads/:id/fact-check, with the requests they send to the search   *)
(* and model backends recorded in call.                                      *)

\* the backends during one request
RequestWorlds ==
    { [key |-> sb.key, serp |-> sb.serp, ddg |-> sb.ddg, http |-> h] :
        sb \in { [key |-> "undefined", serp |-> [fails |-> TRUE, organic |-> 0],
                  ddg |-> [fails |-> TRUE, abstract |-> FALSE, topics |-> 0]],
                 [key |-> "key", serp |-> [fails |-> FALSE, organic |-> 1],
                  ddg |-> [fails |-> TRUE, abstract |-> FALSE, topics |-> 0]],
                 [key |-> "key", serp |-> [fails |-> TRUE, organic |-> 0],
                  ddg |-> [fails |-> FALSE, abstract |-> TRUE, topics |-> 0]] },
        h \in TranscriptHttp }

Traffic(asked, modelCalls) == [asked |-> asked, modelCalls |-> modelCalls]
NoTraffic == Traffic(<<>>, 0)

TrafficOf(result) == Traffic(result.asked, result.modelCalls)

\* what handleExplicitRequest sends to the backends: generateSummary asks the
\* model, factCheckClaim the search backends and the model
handleExplicitRequestTraffic(tid, requestType, hasClaimText, w, thrs) ==
    CASE requestType = "summarize" -> TrafficOf(generateSummary(tid, thrs, FALSE, w.http))
      [] requestType = "fact-check" ->
             IF ~hasClaimText THEN NoTraffic
             ELSE TrafficOf(factCheckClaim(w.key, w.serp, w.ddg, w.http))
      [] OTHER -> NoTraffic

\* what the fact-check route sends to the backends
factCheckRouteTraffic(tid, hasClaimText, env, w, thrs) ==
    IF ~hasClaimText THEN NoTraffic
    ELSE IF env.failAt = "threadFind" \/ tid \notin DOMAIN thrs THEN NoTraffic
    ELSE TrafficOf(factCheckClaim(w.key, w.serp, w.ddg, w.http))

\* the pipeline fails at its model call exactly when the service throws
SummaryEnvsIn(tid, w, thrs) ==
    { e \in SummaryEnvs :
        e.failAt = "generate" <=> generateSummary(tid, thrs, FALSE, w.http).threw }
FactCheckEnvsIn(w) ==
    { e \in FactCheckEnvs :
        e.failAt # "threadFind"
        /\ (e.failAt = "model" <=> factCheckClaim(w.key, w.serp, w.ddg, w.http).threw) }
RouteFactCheckEnvsIn(w) ==
    { e \in FactCheckEnvs :
        e.failAt = "model" => factCheckClaim(w.key, w.serp, w.ddg, w.http).threw }

Request(fn, requestType, hasClaimText, traffic) ==
    [made |-> TRUE, fn |-> fn,
     args |-> [requestType |-> requestType, hasClaimText |-> hasClaimText],
     result |-> traffic]

InitRequests ==
    /\ threads = (1 :> NewThread("balanced", TRUE, MinFrequency))
    /\ messages = <<>>
    /\ claims = <<>>
    /\ now = 1
    /\ outcome = NoOutcome
    /\ call = [Request("none", "none", FALSE, NoTraffic) EXCEPT !.made = FALSE]
    /\ pending = <<>>
    /\ backends = BackendsUp

\* the backends are drawn only for the requests that reach them
DefaultWorld ==
    [key |-> "undefined", serp |-> [fails |-> TRUE, organic |-> 0],
     ddg |-> [fails |-> TRUE, abstract |-> FALSE, topics |-> 0],
     http |-> [kind |-> "ECONNREFUSED", body |-> NoBody]]

ExplicitRequest ==
    /\ RoomForMessage
    /\ \E tid \in ThreadIds, rt \in ExplicitRequestKinds :
         \E hasClaimText \in IF rt = "fact-check" THEN BOOLEAN ELSE {FALSE} :
           \E w \in IF (rt = "summarize" /\ tid \in DOMAIN threads)
                         \/ (rt = "fact-check" /\ hasClaimText)
                   THEN RequestWorlds ELSE {DefaultWorld} :
             \E senv \in IF rt = "summarize" /\ tid \in DOMAIN threads
                         THEN SummaryEnvsIn(tid, w, threads) ELSE {DefaultSummaryEnv} :
               \E fenv \in IF rt = "fact-check" /\ hasClaimText
                           THEN FactCheckEnvsIn(w) ELSE {DefaultFactCheckEnv} :
                 /\ Apply(handleExplicitRequest(tid, rt, hasClaimText, senv, fenv,
                                                threads, messages, now))
                 /\ call' = Request("handleExplicitRequest", rt, hasClaimText,
                                    handleExplicitRequestTraffic(tid, rt, hasClaimText,
                                                                 w, threads))
    /\ UNCHANGED <<claims, now, pending, backends>>

FactCheckRequest ==
    /\ RoomForMessage
    /\ RoomForClaim
    /\ \E tid \in ThreadIds, hasClaimText \in BOOLEAN :
         \E hasMessageId \in IF hasClaimText THEN BOOLEAN ELSE {FALSE} :
           \E w \in IF hasClaimText /\ tid \in DOMAIN threads
                   THEN RequestWorlds ELSE {DefaultWorld} :
             \E env \in IF hasClaimText THEN RouteFactCheckEnvsIn(w)
                        ELSE {DefaultFactCheckEnv} :
               LET e == factCheckRoute(tid, hasClaimText, hasMessageId, env,
                                       threads, messages, claims, now)
               IN  /\ messages' = e.messages
                   /\ claims' = e.claims
                   /\ outcome' = e.outcome
                   /\ call' = Request("POST fact-check", "fact-check", hasClaimText,
                                      factCheckRouteTraffic(tid, hasClaimText, env, w,
                                                            threads))
    /\ UNCHANGED <<threads, now, pending, backends>>

PostMessageBetweenRequests ==
    /\ RoomForMessage
    /\ \E tid \in ThreadIds, env \in PostEnvs :
         LET e == postMessageRoute(tid, env, threads, messages, claims, now)
         IN  /\ threads' = e.threads
             /\ messages' = e.messages
             /\ outcome' = e.outcome
    /\ call' = [call EXCEPT !.made = FALSE]
    /\ UNCHANGED <<claims, now, pending, backends>>

NextRequests ==
    \/ PostMessageBetweenRequests
    \/ ExplicitRequest
    \/ FactCheckRequest

SpecRequests == InitRequests /\ [][NextRequests]_vars

----------------------------------------------------------------------------
(* Rejected explicit requests, over SpecRequests. *)

KnownRequestTypes == {"summarize", "fact-check", "resolve"}

\* the request just handled is a fact-check without claim text or has a
\* type the orchestrator does not know
MalformedRequest ==
    /\ call.made
    /\ \/ /\ call.fn = "handleExplicitRequest"
          /\ \/ call.args.requestType = "fact-check" /\ ~call.args.hasClaimText
             \/ call.args.requestType \notin KnownRequestTypes
       \/ call.fn = "POST fact-check" /\ ~call.args.hasClaimText

RejectedWithError ==
    \/ outcome = [Rejection("handleExplicitRequest") EXCEPT !.failed = TRUE]
    \/ outcome = Http("POST fact-check", 400)

\* C38: a fact-check request without claim text (orchestrator or route) and
\* an explicit request of an unknown type end in an error, send nothing to
\* the search and model backends, and leave threads, messages and claims as
\* they were.
C38_MalformedRequestRejectedUntouched ==
    [][MalformedRequest' =>
         /\ RejectedWithError'
         /\ call'.result = NoTraffic
         /\ threads' = threads
         /\ messages' = messages
         /\ claims' = claims]_vars

\* a fact-check request without claim text, rejected on a thread that
\* already holds messages
C38_Witness ==
    /\ MalformedRequest
    /\ RejectedWithError
    /\ call.args.requestType = "fact-check"
    /\ messages # <<>>

----------------------------------------------------------------------------
(* SpecReactions: POST /api/messages/:id/reactions on one stored message,   *)
(* each request in two steps: up to the answer of Message.findById, and     *)
(* from there to the answer of message.save().  Requests of several clients *)
(* interleave; every client is the same mock user.                          *)

MaxVersion == 4

MockUserId == "000000000000000000000001"

ReactionOf(emoji) == [emoji |-> emoji, userId |-> MockUserId]

\* the document with its reactions array and its version key __v
ReactedMessage ==
    [reactions |-> <<>>, version |-> 0] @@ NewMessage(1, "user", 1, "none")

MessageIds == {1, 2}

ReactionInputs == Emojis \cup {""}

\* r => r.emoji === emoji && r.userId.toString() === mockUserId
SameReaction(r, emoji) == r.emoji = emoji /\ r.userId = MockUserId

\* message.reactions.find(...)
existingReaction(reactions, emoji) ==
    \E k \in DOMAIN reactions : SameReaction(reactions[k], emoji)

\* message.reactions.filter(r => !(...))
WithoutReaction(reactions, emoji) ==
    SelectSeq(reactions, LAMBDA r : ~SameReaction(r, emoji))

\* lines 115-127 on the document the request holds
Toggled(reactions, emoji) ==
    IF existingReaction(reactions, emoji)
    THEN WithoutReaction(reactions, emoji)
    ELSE Append(reactions, ReactionOf(emoji))

Handled(fn, id, input) ==
    [made |-> TRUE, fn |-> fn, args |-> [id |-> id, input |-> input]]

InitReactions ==
    /\ threads = (1 :> NewThread("balanced", TRUE, MinFrequency))
    /\ messages = <<ReactedMessage>>
    /\ claims = <<>>
    /\ now = 1
    /\ outcome = NoOutcome
    /\ call = [Handled("none", 1, "") EXCEPT !.made = FALSE]
    /\ pending = <<>>
    /\ backends = BackendsUp

\* lines 95-108: the emoji is checked and the message is read
BeginReaction ==
    /\ Len(pending) < MaxInFlight
    /\ messages[1].version + Len(pending) < MaxVersion
    /\ \E id \in MessageIds, emoji \in ReactionInputs, findFails \in BOOLEAN :
         /\ call' = Handled("POST reaction", id, emoji)
         /\ IF emoji \in Falsy
            THEN /\ outcome' = Http("POST reaction", 400)
                 /\ UNCHANGED pending
            ELSE IF findFails
            THEN /\ outcome' = Http("POST reaction", 400)
                 /\ UNCHANGED pending
            ELSE IF id \notin DOMAIN messages
            THEN /\ outcome' = Http("POST reaction", 404)
                 /\ UNCHANGED pending
            ELSE /\ pending' = Append(pending, [id |-> id, emoji |-> emoji,
                                                read |-> messages[id].reactions,
                                                version |-> messages[id].version])
                 /\ UNCHANGED outcome
    /\ UNCHANGED <<threads, messages, claims, now, backends>>

\* lines 110-138: the array is changed on the document that was read and
\* the document is saved.  A push is sent as a push onto the stored array;
\* an array that was replaced is written as the request holds it, and that
\* save is refused when the stored version is no longer the one that was read.
FinishReaction ==
    /\ \E k \in DOMAIN pending, saveFails \in BOOLEAN :
         LET p == pending[k]
             stored == messages[p.id]
             stale == stored.version # p.version
         IN  /\ pending' = Remove(pending, k)
             /\ call' = Handled("POST reaction", p.id, p.emoji)
             /\ IF saveFails \/ (existingReaction(p.read, p.emoji) /\ stale)
                THEN /\ outcome' = Http("POST reaction", 400)
                     /\ UNCHANGED messages
                ELSE /\ messages' =
                          [messages EXCEPT
                             ![p.id].reactions =
                                 IF existingReaction(p.read, p.emoji)
                                 THEN Toggled(p.read, p.emoji)
                                 ELSE Append(stored.reactions, ReactionOf(p.emoji)),
                             ![p.id].version = @ + 1]
                     /\ outcome' = Emitting(Http("POST reaction", 200),
                                            "message_reaction")
    /\ UNCHANGED <<threads, claims, now, backends>>

NextReactions ==
    \/ BeginReaction
    \/ FinishReaction

SpecReactions == InitReactions /\ [][NextReactions]_vars

----------------------------------------------------------------------------
(* Properties of the reaction endpoint, over SpecReactions. *)

ReactionCount(reactions, emoji) ==
    Cardinality({ k \in DOMAIN reactions : SameReaction(reactions[k], emoji) })

\* a request for the emoji was answered 200 in this step
ReactionPosted(emoji) ==
    /\ Len(pending') < Len(pending)
    /\ call'.args.input = emoji
    /\ outcome'.status = 200

\* C39: in every reachable state the message holds at most one reaction of
\* the user per emoji, and a reaction post that succeeds adds the reaction
\* when it was absent, removes it when it was present, and leaves the
\* reactions with other emojis as they were.
C39_ReactionPostToggles ==
    /\ [](\A e \in Emojis : ReactionCount(messages[1].reactions, e) <= 1)
    /\ [][\A e \in Emojis :
            ReactionPosted(e) =>
               /\ ReactionCount(messages'[1].reactions, e)
                    = IF existingReaction(messages[1].reactions, e) THEN 0 ELSE 1
               /\ \A o \in Emojis \ {e} :
                    ReactionCount(messages'[1].reactions, o)
                      = ReactionCount(messages[1].reactions, o)]_vars

----------------------------------------------------------------------------
(* SpecDeletion: the routes that read and write single messages, on a       *)
(* thread with two user messages.  PATCH and DELETE are taken in two steps, *)
(* up to the answer of Message.findById and from there to the answer of     *)
(* message.save(), so that requests interleave; the reads are one step.     *)

MaxEdits == 2

DeletedContent == "[Message deleted]"

\* what users write as a message; "" stands for a missing or blank content
WrittenContents == {"A", "B"}
EditInputs == WrittenContents \cup {""}

ContentMessage(content, createdAt) ==
    [content |-> content, editHistory |-> <<>>, reactions |-> <<>>]
        @@ NewMessage(1, "user", createdAt, "none")

\* ids a client may send: the two messages and one that is not stored
RequestedIds == {1, 2, 3}

InitDeletion ==
    /\ threads = (1 :> NewThread("balanced", TRUE, MinFrequency))
    /\ messages = <<ContentMessage("A", 1), ContentMessage("B", 1)>>
    /\ claims = <<>>
    /\ now = 1
    /\ outcome = NoOutcome
    /\ call = [Handled("none", 1, "") EXCEPT !.made = FALSE]
    /\ pending = <<>>
    /\ backends = BackendsUp

\* the fields of the document a request read that its save depends on
Read(m) == [content |-> m.content, isEdited |-> m.isEdited, isDeleted |-> m.isDeleted]

EditsMade ==
    Len(messages[1].editHistory) + Len(messages[2].editHistory) + Len(pending)

\* PATCH lines 30-38: the message is read, a deleted one is refused
BeginEdit ==
    /\ Len(pending) < MaxInFlight
    /\ EditsMade < MaxEdits
    /\ \E id \in RequestedIds, content \in EditInputs, findFails \in BOOLEAN :
         /\ call' = Handled("PATCH message", id, content)
         /\ IF findFails
            THEN /\ outcome' = Http("PATCH message", 400)
                 /\ UNCHANGED pending
            ELSE IF id \notin DOMAIN messages
            THEN /\ outcome' = Http("PATCH message", 404)
                 /\ UNCHANGED pending
            ELSE IF messages[id].isDeleted
            THEN /\ outcome' = Http("PATCH message", 410)
                 /\ UNCHANGED pending
            ELSE /\ pending' = Append(pending, [op |-> "PATCH message", id |-> id,
                                                content |-> content,
                                                read |-> Read(messages[id])])
                 /\ UNCHANGED outcome
    /\ UNCHANGED <<threads, messages, claims, now, backends>>

\* PATCH lines 42-63: the document that was read is changed and saved; the
\* save validates the content and writes the paths that were changed
FinishEdit ==
    /\ \E k \in DOMAIN pending, saveFails \in BOOLEAN :
         LET p == pending[k]
         IN  /\ p.op = "PATCH message"
             /\ pending' = Remove(pending, k)
             /\ call' = Handled("PATCH message", p.id, p.content)
             /\ IF saveFails \/ p.content = ""
                THEN /\ outcome' = Http("PATCH message", 400)
                     /\ UNCHANGED messages
                ELSE /\ messages' =
                          [messages EXCEPT
                             ![p.id].editHistory = Append(@, p.read.content),
                             ![p.id].content =
                                 IF p.content # p.read.content THEN p.content ELSE @,
                             ![p.id].isEdited =
                                 IF ~p.read.isEdited THEN TRUE ELSE @]
                     /\ outcome' = Emitting(Http("PATCH message", 200),
                                            "message_updated")
    /\ UNCHANGED <<threads, claims, now, backends>>

\* DELETE lines 69-73: the message is read
BeginDelete ==
    /\ Len(pending) < MaxInFlight
    /\ \E id \in RequestedIds, findFails \in BOOLEAN :
         /\ call' = Handled("DELETE message", id, "")
         /\ IF findFails
            THEN /\ outcome' = Http("DELETE message", 500)
                 /\ UNCHANGED pending
            ELSE IF id \notin DOMAIN messages
            THEN /\ outcome' = Http("DELETE message", 404)
                 /\ UNCHANGED pending
            ELSE /\ pending' = Append(pending, [op |-> "DELETE message", id |-> id,
                                                content |-> DeletedContent,
                                                read |-> Read(messages[id])])
                 /\ UNCHANGED outcome
    /\ UNCHANGED <<threads, messages, claims, now, backends>>

\* DELETE lines 77-89: the soft delete is saved
FinishDelete ==
    /\ \E k \in DOMAIN pending, saveFails \in BOOLEAN :
         LET p == pending[k]
         IN  /\ p.op = "DELETE message"
             /\ pending' = Remove(pending, k)
             /\ call' = Handled("DELETE message", p.id, "")
             /\ IF saveFails
                THEN /\ outcome' = Http("DELETE message", 500)
                     /\ UNCHANGED messages
                ELSE /\ messages' =
                          [messages EXCEPT
                             ![p.id].isDeleted =
                                 IF ~p.read.isDeleted THEN TRUE ELSE @,
                             ![p.id].content =
                                 IF p.read.content # DeletedContent
                                 THEN DeletedContent ELSE @]
                     /\ outcome' = Emitting(Http("DELETE message", 200),
                                            "message_deleted")
    /\ UNCHANGED <<threads, claims, now, backends>>

\* GET /api/messages/:id
GetMessage ==
    /\ \E id \in RequestedIds, findFails \in BOOLEAN :
         /\ call' = Handled("GET message", id, "")
         /\ outcome' = IF findFails THEN Http("GET message", 500)
                       ELSE IF id \notin DOMAIN messages THEN Http("GET message", 404)
                       ELSE IF messages[id].isDeleted THEN Http("GET message", 410)
                       ELSE Http("GET message", 200)
    /\ UNCHANGED <<threads, messages, claims, now, pending, backends>>

\* Message.find({threadId, isDeleted: false}).sort({createdAt: 1}): the ids
\* in stored order, which is the order of createdAt
FoundInThread(tid) ==
    SelectSeq([i \in 1..Len(messages) |-> i],
              LAMBDA i : messages[i].threadId = tid /\ ~messages[i].isDeleted)

\* .limit(limit).skip(skip): the skip is applied first
Page(seq, limit, skip) ==
    SubSeq(seq, skip + 1, IF skip + limit < Len(seq) THEN skip + limit ELSE Len(seq))

\* GET /api/threads/:id/messages
ListMessages ==
    /\ \E tid \in {1, 2}, limit \in {1, 50}, skip \in {0, 1}, findFails \in BOOLEAN :
         /\ call' = [Handled("GET messages", tid, "") EXCEPT
                       !.args = [id |-> tid, input |-> "",
                                 listed |-> IF findFails THEN <<>>
                                            ELSE Page(FoundInThread(tid), limit, skip)]]
         /\ outcome' = IF findFails THEN Http("GET messages", 500)
                       ELSE Http("GET messages", 200)
    /\ UNCHANGED <<threads, messages, claims, now, pending, backends>>

\* POST /api/messages/:id/reactions, the read and the save in one step
ReactToMessage ==
    /\ \E id \in {1}, emoji \in {VerifyEmoji}, saveFails \in BOOLEAN :
         /\ call' = Handled("POST reaction", id, emoji)
         /\ IF saveFails
            THEN /\ outcome' = Http("POST reaction", 400)
                 /\ UNCHANGED messages
            ELSE /\ messages' = [messages EXCEPT
                                   ![id].reactions = Toggled(@, emoji)]
                 /\ outcome' = Emitting(Http("POST reaction", 200),
                                        "message_reaction")
    /\ UNCHANGED <<threads, claims, now, pending, backends>>

NextDeletion ==
    \/ BeginEdit
    \/ FinishEdit
    \/ BeginDelete
    \/ FinishDelete
    \/ GetMessage
    \/ ListMessages
    \/ ReactToMessage

SpecDeletion == InitDeletion /\ [][NextDeletion]_vars

----------------------------------------------------------------------------
(* Properties of soft deletion, over SpecDeletion. *)

\* C40: a deleted message stays deleted under every later operation; the
\* deletion replaces the content the message had; a PATCH answered on a
\* deleted message is refused with 410 and changes no message; a GET that
\* finds a deleted message answers 410; the thread's listing holds no
\* deleted message.
C40_SoftDeletionIsPermanentAndHides ==
    [][\A i \in DOMAIN messages :
         /\ messages[i].isDeleted => messages'[i].isDeleted
         /\ (~messages[i].isDeleted /\ messages'[i].isDeleted)
               => messages'[i].content # messages[i].content
         /\ (messages[i].isDeleted /\ call'.args.id = i) =>
               /\ call'.fn = "PATCH message"
                     => outcome'.status \in {400, 410} /\ messages' = messages
               /\ (call'.fn = "GET message" /\ outcome'.status # 500)
                     => outcome'.status = 410
         /\ (call'.fn = "GET messages" /\ messages[i].isDeleted)
               => \A k \in DOMAIN call'.args.listed : call'.args.listed[k] # i]_vars

============================================================================
